---- MODULE Spec2Model ----
(***************************************************************************)
(* A model of cmdsproc.py, the command-description processor of fb-adb.    *)
(*                                                                         *)
(* Spec           the ingest pass: UsageFileReader's conditional gating    *)
(*                with CommandSlurpingReader's handlers, driven by the     *)
(*                events of a well-formed XML document.                    *)
(* SpecOptions    the ingest pass over optgroups, options and references.  *)
(* SpecArguments  the ingest pass over commands and their arguments.       *)
(* SpecContext    the ingest pass over nested entities.                    *)
(* SpecNames      the ingest pass over commands with several names.        *)
(* SpecArgs       the generated parser and re-serializer of a command.     *)
(* SpecQuote      CWriter.quote_string and the literal read back.          *)
(* SpecDoc        mode c: the ingest pass, then both documentation passes. *)
(* SpecMain       main with each of the operations h, c and pod.           *)
(* SpecRef        mode c over a shared optgroup, a command that references *)
(*                it, and text.                                            *)
(* SpecShare      the ingest pass over two commands and their optgroups.   *)
(* SpecText       mode pod over sections, markup, text and vspace.         *)
(* SpecPre        mode pod over sections, pre blocks and text.             *)
(* SpecFields     mode h over an optgroup with accumulating options and a  *)
(*                command with arguments.                                  *)
(* SpecCapture    the generated parser of a command with up to three       *)
(*                arguments, run on an argv of values.                     *)
(***************************************************************************)
EXTENDS Integers, Sequences, FiniteSets, TLC

(***************************************************************************)
(* Bounds of the model.                                                    *)
(***************************************************************************)
MaxEvents == 7
MaxFrames == 3
MaxOptionEvents == 10
MaxArgumentEvents == 8
MaxArgumentFrames == 1
MaxContextEvents == 6
MaxNameEvents == 6
MaxRtOptions == 2
MaxArgv == 3
MaxStrLen == 3
MaxDocEvents == 6
MaxMainEvents == 5
MaxMainFrames == 1
MaxRefEvents == 10
MaxShareEvents == 10
MaxTextEvents == 6
MaxPreEvents == 6
MaxCaptureArgs == 3
MaxFieldEvents == 6
MaxTail == 4

(***************************************************************************)
(* Strings that the code takes apart (names) are sequences of one-character*)
(* strings; attribute values that are only compared are TLA+ strings.      *)
(* Absent stands for None, a missing optional attribute.                   *)
(***************************************************************************)
Absent == "<None>"

Letters == {"a", "b", "g", "h", "l", "m", "p", "q"}

\* ID = ^[a-zA-Z_][a-zA-Z0-9_]*$
ID(s) ==
  /\ Len(s) >= 1
  /\ s[1] \in Letters \cup {"_"}
  /\ \A i \in 2..Len(s) : s[i] \in Letters \cup {"_"}

\* ID_DASH = ^[a-zA-Z_][a-zA-Z0-9_-]*$
ID_DASH(s) ==
  /\ Len(s) >= 1
  /\ s[1] \in Letters \cup {"_"}
  /\ \A i \in 2..Len(s) : s[i] \in Letters \cup {"_", "-"}

\* str.replace("-", "_")
ReplaceDash(s) == [i \in DOMAIN s |-> IF s[i] = "-" THEN "_" ELSE s[i]]

\* check_bool: the accepted spellings of a boolean attribute
check_bool_ok(s) == s \in {"yes", "true", "1", "no", "false", "0"}

check_bool(s) == s \in {"yes", "true", "1"}

(***************************************************************************)
(* The inputs: the macros, element tags and attribute values of the        *)
(* documents the model reads.                                              *)
(***************************************************************************)
Macros == {"X"}

EntityTags == {"command", "optgroup", "option", "argument", "optgroup-reference"}

\* one representative of MARKUP_TAGS: ingest ignores them all alike
MarkupTags == {"b"}

CmdNames == {<<"a">>, <<"a", "-", "b">>, <<"a", "_", "b">>}

NamesAttrs == {<<n>> : n \in CmdNames} \cup {<<n, m>> : n \in CmdNames, m \in CmdNames}

OgNames == {<<"g">>, <<"h">>}

LongNames == {<<"l">>, <<"l", "-", "m">>, <<"l", "_", "m">>}

ShortNames == {Absent, "x"}

ArgNames == {<<"p">>, <<"q">>, <<"p", "-", "q">>}

BoolAttrs == {"yes", "no"}

VARIABLES
  defs,            \* UsageFileReader.defs
  ifdefs,          \* UsageFileReader.ifdefs: sequence of <<enable, level>>
  level,           \* UsageFileReader.level
  current,         \* CommandSlurpingReader.current: scope kind -> <<>> or <<entity>>
  commands,        \* CommandSlurpingReader.commands
  optgroups,       \* CommandSlurpingReader.optgroups
  known_commands,  \* CommandSlurpingReader.known_commands
  status,          \* "parsing", "accepted", or the error that ended the parse
  open,            \* the elements of the document that are open (expat's stack)
  rootDone,        \* the root element has been closed
  frames,          \* the conditional instructions that are open: [target, name, depth]
  last,            \* the event handled last: [kind, delivered, depth0]
  evBudget,        \* number of events the document may still hold
  frameBudget,     \* number of ifdef/ifndef instructions it may still hold
  rtStore,         \* generated code: the optgroups it was generated from
  rtCmd,           \* generated code: the command it was generated from
  rtArgv,          \* argv[1..] handed to parse_args_cmd_<symbol>
  rtPc,            \* position of the run of the generated code
  rtInfo,          \* struct cmd_<name>_info filled by the parser
  rtOut,           \* the strlist returned by make_args_cmd_<name>
  rtInfo2,         \* struct cmd_<name>_info filled from the emitted argv
  qS,              \* the string handed to CWriter.quote_string, as byte values
  qLit,            \* the literal it returns
  qDec,            \* the array a C compiler makes of the literal
  qPc,             \* position of the quoting run
  args,            \* main: the parsed command line, [op, defs]
  pass,            \* the reader that is parsing: "ingest", "pod", "manpod"; "done"
  doc,             \* the events of the source read so far, kept when it is read again
  docPos,          \* a documentation pass: the event of the source that comes next
  pod,             \* op_c's pod, op_pod's r: the PodGeneratingReader, <<>> before it is made
  manpod,          \* op_c's manpod
  stdout           \* what has been written to sys.stdout

vars == <<defs, ifdefs, level, current, commands, optgroups, known_commands,
          status, open, rootDone, frames, last, evBudget, frameBudget,
          rtStore, rtCmd, rtArgv, rtPc, rtInfo, rtOut, rtInfo2,
          qS, qLit, qDec, qPc,
          args, pass, doc, docPos, pod, manpod, stdout>>

readerVars == <<defs, ifdefs, level, current, commands, optgroups, known_commands,
                status, open, rootDone, frames, last, evBudget, frameBudget>>

rtVars == <<rtStore, rtCmd, rtArgv, rtPc, rtInfo, rtOut, rtInfo2>>

quoteVars == <<qS, qLit, qDec, qPc>>

mainVars == <<args, pass, doc, docPos, pod, manpod, stdout>>

(***************************************************************************)
(* Sequence helpers.                                                       *)
(***************************************************************************)
Front(s) == SubSeq(s, 1, Len(s) - 1)

Last(s) == s[Len(s)]

Range(s) == {s[i] : i \in DOMAIN s}

(***************************************************************************)
(* UsageFileReader                                                         *)
(***************************************************************************)
\* __enabled_p reading the innermost frame only, then all(x[0] for x in self.ifdefs)
enabled_p_innermost(fs) == fs = <<>> \/ Last(fs)[1]

enabled_p(fs) == \A i \in DOMAIN fs : fs[i][1]

\* the frame pushed by ifdef/ifndef
NewFrame(target, name, ds, lvl) == <<(name \in ds) = (target = "ifdef"), lvl>>

(***************************************************************************)
(* Command, OptGroup, Option, Argument                                     *)
(***************************************************************************)
\* Command.__init__ (names already checked by on_command_start)
Command(name, symbol, altnames) ==
  [name |-> name, symbol |-> symbol, altnames |-> altnames,
   optgroups |-> <<>>, known_arguments |-> {}, arguments |-> <<>>]

allnames(c) == <<c.name>> \o c.altnames

\* OptGroup.__init__ (forward keeps its default, True); human is <<>> for
\* None and <<text>> for a string
OptGroup(name, human) ==
  [name |-> name, symbol |-> name, forward |-> TRUE, known_options |-> {},
   accumulations |-> {}, options |-> <<>>, private |-> FALSE, human |-> human]

\* Option.__init__; accumulate is <<>> for None and <<id>> for an identifier
Option(short, long, arg, accumulate) ==
  [short |-> short, long |-> long, symbol |-> ReplaceDash(long),
   arg |-> arg, accumulate |-> accumulate]

\* Argument.__init__
Argument(name, repeat, optional) ==
  [name |-> name, symbol |-> ReplaceDash(name),
   repeat |-> check_bool(repeat), optional |-> check_bool(optional)]

\* the keys of an option: new_options in OptGroup.add_option
OptionKeys(o) ==
  {<<"long", o.long>>, <<"symbol", o.symbol>>}
    \cup (IF o.short # Absent THEN {<<"short", <<o.short>>>>} ELSE {})

\* OptGroup.add_option: [og, err]
add_option(og, o) ==
  IF OptionKeys(o) \cap og.known_options # {}
  THEN [og |-> og, err |-> "conflicting options"]
  ELSE [og |-> [og EXCEPT !.known_options = @ \cup OptionKeys(o),
                          !.options = Append(@, o),
                          !.accumulations =
                             IF o.accumulate # <<>> THEN @ \cup {o.accumulate[1]} ELSE @],
        err |-> ""]

\* add_optgroup comparing the long names only
add_optgroup_long_only(cmd, ogi, ogs) ==
  IF \E k \in DOMAIN cmd.optgroups :
       {x \in ogs[cmd.optgroups[k]].known_options : x[1] = "long"}
         \cap ogs[ogi].known_options # {}
  THEN [cmd |-> cmd, err |-> "optgroup conflicts"]
  ELSE [cmd |-> [cmd EXCEPT !.optgroups = Append(@, ogi)], err |-> ""]

\* Command.add_optgroup; og is an index into the optgroup store `ogs`: [cmd, err]
add_optgroup(cmd, ogi, ogs) ==
  IF \E k \in DOMAIN cmd.optgroups :
       ogs[cmd.optgroups[k]].known_options \cap ogs[ogi].known_options # {}
  THEN [cmd |-> cmd, err |-> "optgroup conflicts"]
  ELSE [cmd |-> [cmd EXCEPT !.optgroups = Append(@, ogi)], err |-> ""]

\* add_argument comparing with the first argument instead of the last
add_argument_first(cmd, a) ==
  IF a.name \in cmd.known_arguments
  THEN [cmd |-> cmd, err |-> "duplicate argument name"]
  ELSE IF cmd.arguments # <<>> /\ cmd.arguments[1].optional /\ ~a.optional
  THEN [cmd |-> cmd, err |-> "mandatory argument follows optional argument"]
  ELSE IF cmd.arguments # <<>> /\ cmd.arguments[1].repeat
  THEN [cmd |-> cmd, err |-> "if argument is repeated, it must be last"]
  ELSE [cmd |-> [cmd EXCEPT !.arguments = Append(@, a),
                            !.known_arguments = @ \cup {a.name}],
        err |-> ""]

\* Command.add_argument: [cmd, err]
add_argument(cmd, a) ==
  IF a.name \in cmd.known_arguments
  THEN [cmd |-> cmd, err |-> "duplicate argument name"]
  ELSE IF cmd.arguments # <<>> /\ Last(cmd.arguments).optional /\ ~a.optional
  THEN [cmd |-> cmd, err |-> "mandatory argument follows optional argument"]
  ELSE IF cmd.arguments # <<>> /\ Last(cmd.arguments).repeat
  THEN [cmd |-> cmd, err |-> "if argument is repeated, it must be last"]
  ELSE [cmd |-> [cmd EXCEPT !.arguments = Append(@, a),
                            !.known_arguments = @ \cup {a.name}],
        err |-> ""]

\* Command.iter_options: [og, opt] in declaration order over the attached groups
RECURSIVE IterOptionsFrom(_, _, _)
IterOptionsFrom(cmd, store, k) ==
  IF k > Len(cmd.optgroups) THEN <<>>
  ELSE LET og == store[cmd.optgroups[k]]
       IN [i \in DOMAIN og.options |-> [og |-> og.symbol, opt |-> og.options[i]]]
          \o IterOptionsFrom(cmd, store, k + 1)

iter_options(cmd, store) == IterOptionsFrom(cmd, store, 1)

(***************************************************************************)
(* CommandSlurpingReader.  A handler maps the reader's fields              *)
(* [current, commands, optgroups, known_commands, err] to their values     *)
(* when it returns or raises (err # "").                                   *)
(***************************************************************************)
ScopeKinds == {"command", "optgroup", "option", "argument", "optgroup-reference"}

NoScope == [k \in ScopeKinds |-> <<>>]

\* set(self.current)
Keys(cur) == {k \in ScopeKinds : cur[k] # <<>>}

Raise(st, e) == [st EXCEPT !.err = e]

\* on_command_start without nameset.add(symbol)
on_command_start_names_only(st, at) ==
  IF Keys(st.current) # {} THEN Raise(st, "invalid context")
  ELSE IF \E i \in DOMAIN at.names : ~ID_DASH(at.names[i])
  THEN Raise(st, "invalid name")
  ELSE LET names == at.names
           symbol == ReplaceDash(names[1])
           nameset == Range(names)
       IN IF st.known_commands \cap nameset # {}
          THEN Raise(st, "duplicate command names")
          ELSE IF ~ID(symbol) THEN Raise([st EXCEPT !.known_commands = @ \cup nameset],
                                         "invalid ID")
          ELSE [st EXCEPT !.known_commands = @ \cup nameset,
                          !.current["command"] =
                             <<Command(names[1], symbol, SubSeq(names, 2, Len(names)))>>]

on_command_start(st, at) ==
  IF Keys(st.current) # {} THEN Raise(st, "invalid context")
  ELSE IF \E i \in DOMAIN at.names : ~ID_DASH(at.names[i])
  THEN Raise(st, "invalid name")
  ELSE LET names == at.names
           symbol == ReplaceDash(names[1])
           nameset == Range(names) \cup {symbol}
       IN IF st.known_commands \cap nameset # {}
          THEN Raise(st, "duplicate command names")
          ELSE IF ~ID(symbol) THEN Raise([st EXCEPT !.known_commands = @ \cup nameset],
                                         "invalid ID")
          ELSE [st EXCEPT !.known_commands = @ \cup nameset,
                          !.current["command"] =
                             <<Command(names[1], symbol, SubSeq(names, 2, Len(names)))>>]

on_command_end(st) ==
  IF st.current["command"] = <<>> THEN Raise(st, "KeyError")
  ELSE [st EXCEPT !.current["command"] = <<>>,
                  !.commands = Append(@, st.current["command"][1])]

on_optgroup_start(st, at) ==
  IF Keys(st.current) \ {"command"} # {} THEN Raise(st, "invalid context")
  ELSE IF ~ID(at.name) THEN Raise(st, "invalid ID")
  ELSE [st EXCEPT !.current["optgroup"] =
          <<[OptGroup(at.name, IF "human" \in DOMAIN at THEN <<at.human>> ELSE <<>>)
               EXCEPT !.private = ("command" \in Keys(st.current))]>>]

on_optgroup_end(st) ==
  IF st.current["optgroup"] = <<>> THEN Raise(st, "KeyError")
  ELSE LET og == st.current["optgroup"][1]
           st1 == [st EXCEPT !.current["optgroup"] = <<>>,
                             !.optgroups = Append(@, og)]
       IN IF st1.current["command"] = <<>> THEN st1
          ELSE LET r == add_optgroup(st1.current["command"][1],
                                     Len(st1.optgroups), st1.optgroups)
               IN [st1 EXCEPT !.current["command"] = <<r.cmd>>, !.err = r.err]

on_option_start(st, at) ==
  IF Keys(st.current) \cap {"optgroup", "option"} # {"optgroup"}
  THEN Raise(st, "invalid context")
  ELSE IF ~ID_DASH(at.long) THEN Raise(st, "invalid name")
  ELSE IF ~ID(ReplaceDash(at.long)) THEN Raise(st, "invalid ID")
  ELSE IF at.accumulate # <<>> /\ ~ID(at.accumulate[1]) THEN Raise(st, "invalid ID")
  ELSE [st EXCEPT !.current["option"] =
          <<Option(at.short, at.long, at.arg, at.accumulate)>>]

on_option_end(st) ==
  IF st.current["option"] = <<>> THEN Raise(st, "KeyError")
  ELSE LET st1 == [st EXCEPT !.current["option"] = <<>>]
       IN IF st1.current["optgroup"] = <<>> THEN Raise(st1, "KeyError")
          ELSE LET r == add_option(st1.current["optgroup"][1], st.current["option"][1])
               IN [st1 EXCEPT !.current["optgroup"] = <<r.og>>, !.err = r.err]

on_argument_start(st, at) ==
  IF Keys(st.current) \cap {"command", "argument"} # {"command"}
  THEN Raise(st, "invalid context")
  ELSE IF ~ID_DASH(at.name) THEN Raise(st, "invalid name")
  ELSE IF ~ID(ReplaceDash(at.name)) THEN Raise(st, "invalid ID")
  ELSE IF ~check_bool_ok(at.repeat) \/ ~check_bool_ok(at.optional)
  THEN Raise(st, "invalid bool value")
  ELSE [st EXCEPT !.current["argument"] =
          <<Argument(at.name, at.repeat, at.optional)>>]

\* self.current["command"] is looked up before the argument is popped
on_argument_end(st) ==
  IF st.current["command"] = <<>> THEN Raise(st, "KeyError")
  ELSE IF st.current["argument"] = <<>> THEN Raise(st, "KeyError")
  ELSE LET r == add_argument(st.current["command"][1], st.current["argument"][1])
       IN [st EXCEPT !.current["argument"] = <<>>,
                     !.current["command"] = <<r.cmd>>,
                     !.err = r.err]

\* the first optgroup of the store called `name`, 0 when there is none
FirstCalled(ogs, name) ==
  IF \E i \in DOMAIN ogs : ogs[i].name = name
  THEN CHOOSE i \in DOMAIN ogs :
         /\ ogs[i].name = name
         /\ \A j \in 1..(i - 1) : ogs[j].name # name
  ELSE 0

on_optgroup_reference_start(st, at) ==
  IF Keys(st.current) \cap {"command", "optgroup-reference"} # {"command"}
  THEN Raise(st, "invalid context")
  ELSE IF FirstCalled(st.optgroups, at.name) = 0 THEN Raise(st, "no optgroup called")
  ELSE [st EXCEPT !.current["optgroup-reference"] =
          <<FirstCalled(st.optgroups, at.name)>>]

on_optgroup_reference_end(st) ==
  IF st.current["command"] = <<>> THEN Raise(st, "KeyError")
  ELSE IF st.current["optgroup-reference"] = <<>> THEN Raise(st, "KeyError")
  ELSE LET r == add_optgroup(st.current["command"][1],
                             st.current["optgroup-reference"][1], st.optgroups)
       IN [st EXCEPT !.current["optgroup-reference"] = <<>>,
                     !.current["command"] = <<r.cmd>>,
                     !.err = r.err]

\* getattr(self, on_start_function(name))(**fixed_attr); IgnoreMarkup._ignore
OnStart(st, tag, at) ==
  CASE tag = "command" -> on_command_start(st, at)
    [] tag = "optgroup" -> on_optgroup_start(st, at)
    [] tag = "option" -> on_option_start(st, at)
    [] tag = "argument" -> on_argument_start(st, at)
    [] tag = "optgroup-reference" -> on_optgroup_reference_start(st, at)
    [] OTHER -> st

\* getattr(self, on_stop_function(name))()
OnEnd(st, tag) ==
  CASE tag = "command" -> on_command_end(st)
    [] tag = "optgroup" -> on_optgroup_end(st)
    [] tag = "option" -> on_option_end(st)
    [] tag = "argument" -> on_argument_end(st)
    [] tag = "optgroup-reference" -> on_optgroup_reference_end(st)
    [] OTHER -> st

Slurp == [current |-> current, commands |-> commands, optgroups |-> optgroups,
          known_commands |-> known_commands, err |-> ""]

SetSlurp(st) ==
  /\ current' = st.current
  /\ commands' = st.commands
  /\ optgroups' = st.optgroups
  /\ known_commands' = st.known_commands
  /\ status' = IF st.err = "" THEN status ELSE st.err

(***************************************************************************)
(* Text.  A string the documentation walker handles is the sequence of its *)
(* characters; these are the string constants of PodGeneratingReader.      *)
(***************************************************************************)
\* the string constants of PodGeneratingReader, by what they are for
Lit ==
  [
    ENCODING |-> <<"=", "e", "n", "c", "o", "d", "i", "n", "g", " ", "u", "t", "f", "8">>,
    ZERO_WIDTH |-> <<"Z", "<", ">">>,
    PARAGRAPH_END |-> <<"\n", "\n">>,
    HEAD1 |-> <<"=", "h", "e", "a", "d", "1", " ">>,
    NAME |-> <<"N", "a", "m", "e">>,
    DASH_SEP |-> <<" ", "-", " ">>,
    B_FBADB |-> <<"B", "<", "f", "b", "a", "d", "b", " ">>,
    CLOSE_SPACE |-> <<">", " ">>,
    OPTIONS_BRIEF |-> <<" ", "[", "o", "p", "t", "i", "o", "n", "s", "]">>,
    BUNDLE_OPEN |-> <<"[", "B", "<", "-">>,
    BUNDLE_CLOSE |-> <<">", "]", " ">>,
    SHORT_OPEN |-> <<" ", "[", "B", "<", "-">>,
    I_OPEN |-> <<"I", "<">>,
    LONG_OPEN |-> <<" ", "S", "<", "[", "B", "<", "-", "-">>,
    LONG_CLOSE |-> <<"]", ">">>,
    EQ_I_OPEN |-> <<"=", "I", "<">>,
    ELLIPSIS |-> <<".", ".", ".">>,
    SEE_BELOW |->
      <<"S", "e", "e", " ", "c", "o", "m", "m", "a", "n", "d", "-", "s", "p", "e", "c",
        "i", "f", "i", "c", " ", "s", "e", "c", "t", "i", "o", "n", "s", " ", "b", "e",
        "l", "o", "w", " ", "f", "o", "r", " ", "d", "e", "t", "a", "i", "l", "s", ".">>,
    B_OPEN |-> <<"B", "<">>,
    C_OPEN |-> <<"C", "<">>,
    OVER |-> <<"=", "o", "v", "e", "r">>,
    BACK |-> <<"=", "b", "a", "c", "k">>,
    B_LONG |-> <<"B", "<", "-", "-">>,
    B_SHORT |-> <<"B", "<", "-">>,
    COMMA_B_LONG |-> <<">", ",", " ", "B", "<", "-", "-">>,
    ITEM |-> <<"=", "i", "t", "e", "m", " ">>,
    OPTIONS_SUFFIX |-> <<" ", "o", "p", "t", "i", "o", "n", "s">>,
    COMMAND_SUFFIX |-> <<" ", "c", "o", "m", "m", "a", "n", "d">>,
    L_OPEN |-> <<"L", "<">>,
    BAR_SLASH |-> <<"|", "/">>,
    THE |-> <<"T", "h", "e", " ">>,
    OPTION_ABOVE |->
      <<" ", "o", "p", "t", "i", "o", "n", " ", "i", "s", " ", "d", "e", "s", "c", "r",
        "i", "b", "e", "d", " ", "a", "b", "o", "v", "e", ".">>,
    AND |-> <<",", " ", "a", "n", "d", " ">>,
    OPTIONS_ABOVE |->
      <<" ", "o", "p", "t", "i", "o", "n", "s", " ", "a", "r", "e", " ", "d", "e", "s",
        "c", "r", "i", "b", "e", "d", " ", "a", "b", "o", "v", "e", ".">>,
    COMMA |-> <<",", " ">>,
    ITEM_I |-> <<"=", "i", "t", "e", "m", " ", "I", "<">>,
    ITEM_STAR |-> <<"=", "i", "t", "e", "m", " ", "*">>,
    ITEM_B |-> <<"=", "i", "t", "e", "m", " ", "B", "<">>,
    E_LT |-> <<"E", "<", "l", "t", ">">>,
    E_GT |-> <<"E", "<", "g", "t", ">">>,
    E_VERBAR |-> <<"E", "<", "v", "e", "r", "b", "a", "r", ">">>,
    E_SOL |-> <<"E", "<", "s", "o", "l", ">">>
  ]

\* the characters of a string of at most one character (a short name, an arg)
Chars(x) == IF x = "" THEN <<>> ELSE <<x>>

\* the characters WSRUNS matches (the vertical tab left out)
WSRUNS == {" ", "\t", "\r", "\n"}

\* PODSPECIAL, PODESCAPE
PODESCAPE(c) ==
  CASE c = "<" -> Lit.E_LT
    [] c = ">" -> Lit.E_GT
    [] c = "|" -> Lit.E_VERBAR
    [] c = "/" -> Lit.E_SOL
    [] OTHER -> <<c>>

\* "".join(parts)
RECURSIVE Join(_)
Join(parts) == IF parts = <<>> THEN <<>> ELSE Head(parts) \o Join(Tail(parts))

\* re.sub(self.WSRUNS, " ", text)
RECURSIVE SubWsRuns(_)
SubWsRuns(text) ==
  IF text = <<>> THEN <<>>
  ELSE IF Head(text) \notin WSRUNS THEN <<Head(text)>> \o SubWsRuns(Tail(text))
  ELSE IF Len(text) > 1 /\ text[2] \in WSRUNS THEN SubWsRuns(Tail(text))
  ELSE <<" ">> \o SubWsRuns(Tail(text))

RECURSIVE lstrip(_)
lstrip(text) == IF text # <<>> /\ Head(text) \in WSRUNS THEN lstrip(Tail(text)) ELSE text

RECURSIVE rstrip(_)
rstrip(text) == IF text # <<>> /\ Last(text) \in WSRUNS THEN rstrip(Front(text)) ELSE text

strip(text) == rstrip(lstrip(text))

\* re.sub(self.PODSPECIAL, self.__escape_repl, text)
RECURSIVE SubPodSpecial(_)
SubPodSpecial(text) ==
  IF text = <<>> THEN <<>> ELSE PODESCAPE(Head(text)) \o SubPodSpecial(Tail(text))

\* str.upper, for the letters a to z
upper(text) ==
  LET Lowercase ==
        <<"a", "b", "c", "d", "e", "f", "g", "h", "i", "j", "k", "l", "m",
          "n", "o", "p", "q", "r", "s", "t", "u", "v", "w", "x", "y", "z">>
      Uppercase ==
        <<"A", "B", "C", "D", "E", "F", "G", "H", "I", "J", "K", "L", "M",
          "N", "O", "P", "Q", "R", "S", "T", "U", "V", "W", "X", "Y", "Z">>
  IN [i \in DOMAIN text |->
        IF \E k \in DOMAIN Lowercase : Lowercase[k] = text[i]
        THEN Uppercase[CHOOSE k \in DOMAIN Lowercase : Lowercase[k] = text[i]]
        ELSE text[i]]

(***************************************************************************)
(* BufferingWriter, as two fields of the walker that owns it: bw_output is *)
(* what the underlying stream holds, bw_output_buffer is <<>> for None and *)
(* <<text>> for a StringIO holding text (a StringIO is true when empty).   *)
(***************************************************************************)
write(w, text) ==
  IF w.bw_output_buffer # <<>>
  THEN [w EXCEPT !.bw_output_buffer = <<@[1] \o text>>]
  ELSE [w EXCEPT !.bw_output = @ \o text]

ob_start(w) ==
  IF w.bw_output_buffer # <<>> THEN Raise(w, "AssertionError")
  ELSE [w EXCEPT !.bw_output_buffer = <<<<>>>>]

\* [w, contents]: contents is <<>> when the method returns None
ob_end_flush(w) ==
  IF w.bw_output_buffer # <<>>
  THEN [w |-> write([w EXCEPT !.bw_output_buffer = <<>>], w.bw_output_buffer[1]),
        contents |-> w.bw_output_buffer]
  ELSE [w |-> w, contents |-> <<>>]

(***************************************************************************)
(* PodGeneratingReader.  A method maps the walker's fields to their values *)
(* when it returns or raises (err # ""); ir holds the commands and the     *)
(* optgroups of the ingest pass.                                           *)
(***************************************************************************)
\* PodGeneratingReader.__init__ before its call of command; current_command
\* is <<>> while the attribute is unset or None
NewWalker(full_optgroups) ==
  [paragraph |-> <<>>, pre_depth |-> 0, bw_output |-> <<>>, bw_output_buffer |-> <<>>,
   section_contents |-> <<>>, current_section |-> <<>>, current_command |-> <<>>,
   full_optgroups |-> full_optgroups, err |-> ""]

flush_paragraph(w) ==
  LET text == strip(SubWsRuns(Join(w.paragraph)))
      w1 == [w EXCEPT !.paragraph = <<>>]
  IN IF text # <<>> /\ text # Lit.ZERO_WIDTH
     THEN write(write(IF w1.pre_depth > 0 THEN write(w1, <<" ">>) ELSE w1, strip(text)),
                Lit.PARAGRAPH_END)
     ELSE w1

quote(w, text) == IF w.pre_depth > 0 THEN text ELSE SubPodSpecial(text)

spool(w, part) == [w EXCEPT !.paragraph = Append(@, part)]

pod_on_cdata(w, cdata) ==
  LET c1 == SubWsRuns(quote(w, cdata))
  IN IF w.paragraph = <<>>
     THEN IF lstrip(c1) = <<>> THEN w
          ELSE spool(IF w.pre_depth = 0 THEN spool(w, Lit.ZERO_WIDTH) ELSE w, lstrip(c1))
     ELSE spool(w, c1)

command(w, text) == flush_paragraph(spool(flush_paragraph(w), text))

start_section_buffer(w, title) ==
  IF w.current_section # <<>> THEN Raise(w, "AssertionError")
  ELSE ob_start([w EXCEPT !.current_section = <<title>>])

\* flush_section_buffer that leaves current_section set
flush_section_buffer_keeping_title(w) ==
  LET w1 == flush_paragraph(w)
  IN IF w1.current_section = <<>> THEN w1
     ELSE LET r == ob_end_flush(w1)
          IN [r.w EXCEPT !.section_contents = (w1.current_section[1] :> r.contents) @@ @]

\* section_contents[k] is <<>> for None and <<text>> for a string
flush_section_buffer(w) ==
  LET w1 == flush_paragraph(w)
  IN IF w1.current_section = <<>> THEN w1
     ELSE LET r == ob_end_flush(w1)
          IN [r.w EXCEPT !.current_section = <<>>,
                         !.section_contents = (w1.current_section[1] :> r.contents) @@ @]

head1(w, expanded_title) ==
  LET w1 == flush_section_buffer(w)
      w2 == command(w1, Lit.HEAD1 \o upper(quote(w1, expanded_title)))
  IN start_section_buffer(w2, expanded_title)

pod_on_section_start(w, at) == head1(w, at.name)

pod_on_section_end(w) == flush_paragraph(w)

pod_on_usage_start(w, at) ==
  LET w1 == pod_on_section_start(w, [name |-> Lit.NAME])
  IN IF w1.err # "" THEN w1
     ELSE pod_on_section_end(pod_on_cdata(w1, at.program \o Lit.DASH_SEP \o at.summary))

pod_on_usage_end(w) == flush_section_buffer(flush_paragraph(w))

\* section_title_for_optgroup
section_title_for_optgroup(og) ==
  upper((IF og.human # <<>> /\ og.human[1] # <<>> THEN og.human[1] ELSE og.name)
          \o Lit.OPTIONS_SUFFIX)

\* section_title_for_command
section_title_for_command(cmd) == cmd.name \o Lit.COMMAND_SUFFIX

\* write_command_synopsis: the short options that take no argument, bundled
RECURSIVE ShortSimple(_)
ShortSimple(it) ==
  IF it = <<>> THEN <<>>
  ELSE (IF Head(it).opt.short # Absent /\ Head(it).opt.arg = Absent
        THEN Chars(Head(it).opt.short) ELSE <<>>) \o ShortSimple(Tail(it))

\* write_command_synopsis: the entries of the options, one after the other
RECURSIVE SynopsisOptions(_, _)
SynopsisOptions(w, it) ==
  IF it = <<>> THEN <<>>
  ELSE LET o == Head(it).opt
       IN (IF o.short # Absent
           THEN Lit.SHORT_OPEN \o quote(w, Chars(o.short)) \o <<">">>
                  \o (IF o.arg # Absent THEN Lit.I_OPEN \o quote(w, Chars(o.arg)) \o <<">">>
                      ELSE <<>>)
                  \o <<"]">>
           ELSE <<>>)
          \o Lit.LONG_OPEN \o quote(w, o.long) \o <<">">>
          \o (IF o.arg # Absent THEN Lit.EQ_I_OPEN \o quote(w, Chars(o.arg)) \o <<">">>
              ELSE <<>>)
          \o Lit.LONG_CLOSE
          \o SynopsisOptions(w, Tail(it))

\* write_command_synopsis: the arguments, then "]" * optdepth
RECURSIVE SynopsisArguments(_, _, _)
SynopsisArguments(w, arguments, optdepth) ==
  IF arguments = <<>> THEN [i \in 1..optdepth |-> "]"]
  ELSE LET a == Head(arguments)
           arg_s == Lit.I_OPEN \o quote(w, a.name) \o (IF a.repeat THEN Lit.ELLIPSIS ELSE <<>>)
                      \o <<">">>
       IN <<" ">> \o (IF a.optional THEN <<"[">> ELSE <<>>) \o arg_s
            \o SynopsisArguments(w, Tail(arguments),
                                 IF a.optional THEN optdepth + 1 ELSE optdepth)

write_command_synopsis(w, ir, cmd, verbose) ==
  LET it == iter_options(cmd, ir.optgroups)
      s0 == Lit.B_FBADB \o quote(w, cmd.name) \o Lit.CLOSE_SPACE
      s1 == IF ~verbose
            THEN s0 \o (IF cmd.optgroups # <<>> THEN Lit.OPTIONS_BRIEF ELSE <<>>)
            ELSE s0 \o (IF ShortSimple(it) # <<>>
                        THEN Lit.BUNDLE_OPEN \o quote(w, ShortSimple(it)) \o Lit.BUNDLE_CLOSE
                        ELSE <<>>)
                    \o SynopsisOptions(w, it)
  IN command(w, s1 \o SynopsisArguments(w, cmd.arguments, 0))

RECURSIVE SynopsisAll(_, _, _)
SynopsisAll(w, ir, k) ==
  IF k > Len(ir.commands) THEN w
  ELSE SynopsisAll(write_command_synopsis(w, ir, ir.commands[k], FALSE), ir, k + 1)

pod_on_synopsis_start(w, ir) == command(SynopsisAll(w, ir, 1), Lit.SEE_BELOW)

\* self.optgroups[name]: the OrderedDict keeps the last optgroup of a name; 0 is KeyError
LastCalled(ogs, name) ==
  IF \E i \in DOMAIN ogs : ogs[i].name = name
  THEN CHOOSE i \in DOMAIN ogs :
         /\ ogs[i].name = name
         /\ \A j \in (i + 1)..Len(ogs) : ogs[j].name # name
  ELSE 0

\* self.commands[name]; 0 is KeyError
CommandCalled(cmds, name) ==
  IF \E i \in DOMAIN cmds : cmds[i].name = name
  THEN CHOOSE i \in DOMAIN cmds :
         /\ cmds[i].name = name
         /\ \A j \in (i + 1)..Len(cmds) : cmds[j].name # name
  ELSE 0

pod_on_optgroup_start(w, ir, at) ==
  IF LastCalled(ir.optgroups, at.name) = 0 THEN Raise(w, "KeyError")
  ELSE LET og == ir.optgroups[LastCalled(ir.optgroups, at.name)]
           w1 == IF ~og.private THEN head1(w, section_title_for_optgroup(og)) ELSE w
       IN IF w1.err # "" THEN w1 ELSE command(w1, Lit.OVER)


\* short, arg: Absent when the attribute is not given
pod_on_option_start(w, at) ==
  LET short == IF "short" \in DOMAIN at THEN at.short ELSE Absent
      arg == IF "arg" \in DOMAIN at THEN at.arg ELSE Absent
      label ==
        IF arg = Absent
        THEN IF short = Absent THEN Lit.B_LONG \o quote(w, at.long) \o <<">">>
             ELSE Lit.B_SHORT \o quote(w, Chars(short)) \o Lit.COMMA_B_LONG \o quote(w, at.long)
                    \o <<">">>
        ELSE IF short = Absent
        THEN Lit.B_LONG \o quote(w, at.long) \o <<">">> \o Lit.EQ_I_OPEN \o quote(w, Chars(arg))
               \o <<">">>
        ELSE Lit.B_SHORT \o quote(w, Chars(short)) \o <<">">> \o Lit.I_OPEN \o quote(w, Chars(arg))
               \o Lit.COMMA_B_LONG \o quote(w, at.long) \o <<">">> \o Lit.EQ_I_OPEN
               \o quote(w, Chars(arg)) \o <<">">>
  IN command(w, Lit.ITEM \o label)


pod_on_vspace_start(w) == command(w, Lit.ZERO_WIDTH)

\* names is split at the commas already; strip changes no name the ingest accepts
pod_on_command_start(w, ir, at) ==
  IF CommandCalled(ir.commands, at.names[1]) = 0 THEN Raise(w, "KeyError")
  ELSE LET cmd == ir.commands[CommandCalled(ir.commands, at.names[1])]
           w1 == head1([w EXCEPT !.current_command = <<cmd>>],
                       section_title_for_command(cmd))
       IN IF w1.err # "" THEN w1 ELSE write_command_synopsis(w1, ir, cmd, TRUE)

\* on_command_end: [og, text] for the options of the groups that are not private
RECURSIVE NonlocalOptions(_, _, _)
NonlocalOptions(cmd, store, k) ==
  IF k > Len(cmd.optgroups) THEN <<>>
  ELSE LET og == store[cmd.optgroups[k]]
           Both(o) == (IF o.short # Absent
                      THEN <<[og |-> og, text |-> <<"-">> \o Chars(o.short)]>> ELSE <<>>)
                       \o <<[og |-> og, text |-> <<"-", "-">> \o o.long]>>
           Each[i \in 0..Len(og.options)] ==
             IF i = 0 THEN <<>> ELSE Each[i - 1] \o Both(og.options[i])
       IN (IF og.private THEN <<>> ELSE Each[Len(og.options)])
            \o NonlocalOptions(cmd, store, k + 1)

fmt_nlo(w, x) ==
  Lit.L_OPEN \o Lit.B_OPEN \o quote(w, x.text) \o <<">">> \o Lit.BAR_SLASH
    \o section_title_for_optgroup(x.og) \o <<">">>

\* ", ".join(map(fmt_nlo, nonlocal_options[:-1]))
RECURSIVE JoinNlo(_, _, _)
JoinNlo(w, nlo, k) ==
  IF k >= Len(nlo) THEN <<>>
  ELSE fmt_nlo(w, nlo[k]) \o (IF k + 1 < Len(nlo) THEN Lit.COMMA ELSE <<>>)
         \o JoinNlo(w, nlo, k + 1)

pod_on_command_end(w, ir) ==
  LET w1 == flush_paragraph(w)
  IN IF w1.current_command = <<>> THEN Raise(w1, "AttributeError")
     ELSE LET nlo == NonlocalOptions(w1.current_command[1], ir.optgroups, 1)
              w2 == IF w1.full_optgroups \/ nlo = <<>> THEN w1
                    ELSE IF Len(nlo) = 1
                    THEN command(w1, Lit.THE \o fmt_nlo(w1, nlo[1]) \o Lit.OPTION_ABOVE)
                    ELSE command(w1, Lit.THE \o JoinNlo(w1, nlo, 1) \o Lit.AND
                                       \o fmt_nlo(w1, Last(nlo)) \o Lit.OPTIONS_ABOVE)
          IN [w2 EXCEPT !.current_command = <<>>]

pod_on_argument_start(w, at) ==
  command(command(flush_paragraph(w), Lit.OVER), Lit.ITEM_I \o quote(w, at.name) \o <<">">>)


\* self.out.write(None) is a TypeError
pod_on_optgroup_reference_start(w, ir, at) ==
  IF ~w.full_optgroups THEN w
  ELSE IF LastCalled(ir.optgroups, at.name) = 0 THEN Raise(w, "KeyError")
  ELSE LET title == section_title_for_optgroup(
                      ir.optgroups[LastCalled(ir.optgroups, at.name)])
       IN IF title \notin DOMAIN w.section_contents THEN Raise(w, "KeyError")
          ELSE IF w.section_contents[title] = <<>> THEN Raise(w, "TypeError")
          ELSE write(w, w.section_contents[title][1])



pod_on_pre_start(w) == [flush_paragraph(w) EXCEPT !.pre_depth = @ + 1]

pod_on_pre_end(w) == [flush_paragraph(w) EXCEPT !.pre_depth = @ - 1]

\* getattr(self, on_start_function(name))(**fixed_attr) of a PodGeneratingReader
PodOnStart(w, ir, tag, at) ==
  CASE tag = "usage" -> pod_on_usage_start(w, at)
    [] tag = "section" -> pod_on_section_start(w, at)
    [] tag = "synopsis" -> pod_on_synopsis_start(w, ir)
    [] tag = "b" -> spool(w, Lit.B_OPEN)
    [] tag = "i" -> spool(w, Lit.I_OPEN)
    [] tag = "tt" -> spool(w, Lit.C_OPEN)
    [] tag = "optgroup" -> pod_on_optgroup_start(w, ir, at)
    [] tag = "option" -> pod_on_option_start(w, at)
    [] tag = "vspace" -> pod_on_vspace_start(w)
    [] tag = "command" -> pod_on_command_start(w, ir, at)
    [] tag = "argument" -> pod_on_argument_start(w, at)
    [] tag = "optgroup-reference" -> pod_on_optgroup_reference_start(w, ir, at)
    [] tag \in {"ul", "dl"} -> command(w, Lit.OVER)
    [] tag = "li" -> command(w, Lit.ITEM_STAR)
    [] tag = "dt" -> spool(flush_paragraph(w), Lit.ITEM_B)
    [] tag = "dd" -> flush_paragraph(w)
    [] tag = "pre" -> pod_on_pre_start(w)
    [] OTHER -> Raise(w, "AttributeError")

\* getattr(self, on_stop_function(name))() of a PodGeneratingReader
PodOnEnd(w, ir, tag) ==
  CASE tag = "usage" -> pod_on_usage_end(w)
    [] tag = "section" -> pod_on_section_end(w)
    [] tag \in {"b", "i", "tt"} -> spool(w, <<">">>)
    [] tag = "optgroup" -> command(w, Lit.BACK)
    [] tag = "option" -> flush_paragraph(w)
    [] tag = "command" -> pod_on_command_end(w, ir)
    [] tag = "argument" -> command(w, Lit.BACK)
    [] tag \in {"ul", "dl"} -> command(w, Lit.BACK)
    [] tag = "dt" -> flush_paragraph(spool(w, <<">">>))
    [] tag = "dd" -> flush_paragraph(w)
    [] tag = "pre" -> pod_on_pre_end(w)
    [] tag \in {"synopsis", "vspace", "optgroup-reference", "li"} -> w
    [] OTHER -> Raise(w, "AttributeError")

\* PodGeneratingReader.__init__
PodGeneratingReader(full_optgroups) == command(NewWalker(full_optgroups), Lit.ENCODING)

(***************************************************************************)
(* The passes over the source: one action for each expat callback.  The    *)
(* ingest pass reads a document event by event; a documentation pass reads *)
(* the same events again (parse starts with file.seek(0)).                 *)
(***************************************************************************)
\* the generated code is not run while the generator runs
RtIdle ==
  /\ rtStore = <<>>
  /\ rtCmd = <<>>
  /\ rtArgv = <<>>
  /\ rtPc = "idle"
  /\ rtInfo = <<>>
  /\ rtOut = <<>>
  /\ rtInfo2 = <<>>

\* nothing is being quoted
QuoteIdle ==
  /\ qS = <<>>
  /\ qLit = <<>>
  /\ qDec = <<>>
  /\ qPc = "idle"

\* main up to r.parse(commands_file): the command line is one of ops x SUBSET
\* macros, the source holds at most `events` events, `conds` of them ifdef/ifndef
MainInit(ops, macros, events, conds) ==
  /\ defs \in SUBSET macros
  /\ args \in {[op |-> o, defs |-> defs] : o \in ops}
  /\ pass = "ingest"
  /\ doc = <<>>
  /\ docPos = 0
  /\ pod = <<>>
  /\ manpod = <<>>
  /\ stdout = <<>>
  /\ ifdefs = <<>>
  /\ level = 0
  /\ current = NoScope
  /\ commands = <<>>
  /\ optgroups = <<>>
  /\ known_commands = {}
  /\ status = "parsing"
  /\ open = <<>>
  /\ rootDone = FALSE
  /\ frames = <<>>
  /\ last = [kind |-> "none", delivered |-> FALSE, depth0 |-> 0]
  /\ evBudget = events
  /\ frameBudget = conds
  /\ RtIdle
  /\ QuoteIdle

\* header mode, where the source is read once
ReaderInit(events, conds) == MainInit({"h"}, Macros, events, conds)

\* the parser is at event ev: any event while the document is being written
\* (the ingest pass), the recorded one in a documentation pass
Reads(ev) ==
  /\ status = "parsing"
  /\ IF pass = "ingest" THEN evBudget > 0
     ELSE docPos <= Len(doc) /\ doc[docPos] = ev

\* the parser moves past ev
Advance(ev) ==
  /\ evBudget' = IF pass = "ingest" THEN evBudget - 1 ELSE evBudget
  /\ doc' = IF pass = "ingest" /\ args.op # "h" THEN Append(doc, ev) ELSE doc
  /\ docPos' = IF pass = "ingest" THEN docPos ELSE docPos + 1

\* what the documentation walker is given of the ingest pass
IR == [commands |-> commands, optgroups |-> optgroups]

\* the PodGeneratingReader that is parsing
Walker == IF pass = "pod" THEN pod ELSE manpod

\* op_pod's walker writes to sys.stdout, op_c's walkers to a StringIO each
SetWalker(w) ==
  /\ pod' = IF pass = "pod" THEN w ELSE pod
  /\ manpod' = IF pass = "manpod" THEN w ELSE manpod
  /\ stdout' = IF args.op = "pod" THEN w.bw_output ELSE stdout
  /\ status' = IF w.err = "" THEN status ELSE w.err

\* UsageFileReader.__StartElementHandler
StartElement(tag, at) ==
  /\ Reads([kind |-> "start", tag |-> tag, at |-> at])
  /\ open = <<>> => ~rootDone
  /\ Advance([kind |-> "start", tag |-> tag, at |-> at])
  /\ open' = Append(open, tag)
  /\ last' = [kind |-> "start", delivered |-> enabled_p(ifdefs), depth0 |-> 0]
  /\ IF ~enabled_p(ifdefs)
     THEN UNCHANGED <<level, current, commands, optgroups, known_commands, status,
                      pod, manpod, stdout>>
     ELSE /\ level' = level + 1
          /\ IF pass = "ingest"
             THEN /\ SetSlurp(OnStart(Slurp, tag, at))
                  /\ UNCHANGED <<pod, manpod, stdout>>
             ELSE /\ SetWalker(PodOnStart(Walker, IR, tag, at))
                  /\ UNCHANGED <<current, commands, optgroups, known_commands>>
  /\ UNCHANGED <<rtVars, quoteVars>>
  /\ UNCHANGED <<defs, ifdefs, rootDone, frames, frameBudget, args, pass>>

\* UsageFileReader.__EndElementHandler
EndElement ==
  /\ Reads([kind |-> "end"])
  /\ open # <<>>
  /\ Advance([kind |-> "end"])
  /\ open' = Front(open)
  /\ rootDone' = (Len(open) = 1)
  /\ last' = [kind |-> "end", delivered |-> enabled_p(ifdefs), depth0 |-> 0]
  /\ IF ~enabled_p(ifdefs)
     THEN UNCHANGED <<level, current, commands, optgroups, known_commands, status,
                      pod, manpod, stdout>>
     ELSE IF pass = "ingest"
     THEN LET st == OnEnd(Slurp, Last(open))
          IN /\ SetSlurp(st)
             /\ level' = IF st.err = "" THEN level - 1 ELSE level
             /\ UNCHANGED <<pod, manpod, stdout>>
     ELSE LET w == PodOnEnd(Walker, IR, Last(open))
          IN /\ SetWalker(w)
             /\ level' = IF w.err = "" THEN level - 1 ELSE level
             /\ UNCHANGED <<current, commands, optgroups, known_commands>>
  /\ UNCHANGED <<rtVars, quoteVars>>
  /\ UNCHANGED <<defs, ifdefs, frames, frameBudget, args, pass>>

\* UsageFileReader.__CharacterDataHandler; IgnoreMarkup.on_cdata in the ingest
\* pass (expat reports character data inside the root element only; adjacent
\* runs of text count as one event)
CharacterData(cdata) ==
  /\ Reads([kind |-> "cdata", cdata |-> cdata])
  /\ open # <<>>
  /\ last.kind # "cdata"
  /\ Advance([kind |-> "cdata", cdata |-> cdata])
  /\ last' = [kind |-> "cdata", delivered |-> enabled_p(ifdefs), depth0 |-> 0]
  /\ IF enabled_p(ifdefs) /\ pass # "ingest"
     THEN SetWalker(pod_on_cdata(Walker, cdata))
     ELSE UNCHANGED <<status, pod, manpod, stdout>>
  /\ UNCHANGED <<rtVars, quoteVars>>
  /\ UNCHANGED <<defs, ifdefs, level, current, commands, optgroups, known_commands,
                 open, rootDone, frames, frameBudget, args, pass>>

\* UsageFileReader.__ProcessingInstructionHandler, target ifdef or ifndef
IfdefInstruction(target, name) ==
  /\ Reads([kind |-> target, name |-> name])
  /\ pass = "ingest" => frameBudget > 0
  /\ Advance([kind |-> target, name |-> name])
  /\ frameBudget' = IF pass = "ingest" THEN frameBudget - 1 ELSE frameBudget
  /\ ifdefs' = Append(ifdefs, NewFrame(target, name, defs, level))
  /\ frames' = Append(frames, [target |-> target, name |-> name, depth |-> Len(open)])
  /\ last' = [kind |-> target, delivered |-> TRUE, depth0 |-> Len(open)]
  /\ UNCHANGED <<rtVars, quoteVars>>
  /\ UNCHANGED <<defs, level, current, commands, optgroups, known_commands, status,
                 open, rootDone, args, pass, pod, manpod, stdout>>

\* the endif branch popping a frame only when there is one
EndifInstruction_lenient ==
  /\ Reads([kind |-> "endif"])
  /\ Advance([kind |-> "endif"])
  /\ IF ifdefs = <<>>
     THEN /\ last' = [kind |-> "endif", delivered |-> TRUE, depth0 |-> Len(open)]
          /\ UNCHANGED <<ifdefs, frames, status>>
     ELSE /\ ifdefs' = Front(ifdefs)
          /\ frames' = Front(frames)
          /\ last' = [kind |-> "endif", delivered |-> TRUE, depth0 |-> Last(frames).depth]
          /\ status' = IF level # Last(ifdefs)[2] THEN "badly formed ifdef" ELSE status
  /\ UNCHANGED <<rtVars, quoteVars>>
  /\ UNCHANGED <<defs, level, current, commands, optgroups, known_commands,
                 open, rootDone, frameBudget, args, pass, pod, manpod, stdout>>

\* UsageFileReader.__ProcessingInstructionHandler, target endif
EndifInstruction ==
  /\ Reads([kind |-> "endif"])
  /\ Advance([kind |-> "endif"])
  /\ IF ifdefs = <<>>
     THEN /\ status' = "IndexError"
          /\ last' = [kind |-> "endif", delivered |-> TRUE, depth0 |-> Len(open)]
          /\ UNCHANGED <<ifdefs, frames>>
     ELSE /\ ifdefs' = Front(ifdefs)
          /\ frames' = Front(frames)
          /\ last' = [kind |-> "endif", delivered |-> TRUE, depth0 |-> Last(frames).depth]
          /\ status' = IF level # Last(ifdefs)[2] THEN "badly formed ifdef" ELSE status
  /\ UNCHANGED <<rtVars, quoteVars>>
  /\ UNCHANGED <<defs, level, current, commands, optgroups, known_commands,
                 open, rootDone, frameBudget, args, pass, pod, manpod, stdout>>

\* ep.ParseFile returns: the document is complete
EndDocument ==
  /\ status = "parsing"
  /\ open = <<>>
  /\ rootDone
  /\ pass # "ingest" => docPos > Len(doc)
  /\ status' = "accepted"
  /\ last' = [kind |-> "eof", delivered |-> FALSE, depth0 |-> 0]
  /\ UNCHANGED <<rtVars, quoteVars>>
  /\ UNCHANGED <<defs, ifdefs, level, current, commands, optgroups, known_commands,
                 open, rootDone, frames, evBudget, frameBudget,
                 args, pass, doc, docPos, pod, manpod, stdout>>

(***************************************************************************)
(* Spec: documents of markup and commands with conditional instructions.   *)
(***************************************************************************)
Next ==
  \/ StartElement("b", [none |-> Absent])
  \/ StartElement("command", [names |-> <<<<"a">>>>])
  \/ EndElement
  \/ CharacterData(<<"t">>)
  \/ \E target \in {"ifdef", "ifndef"} : \E name \in Macros : IfdefInstruction(target, name)
  \/ EndifInstruction
  \/ EndDocument

Spec ==
  ReaderInit(MaxEvents, MaxFrames) /\ [][Next]_vars

\* C1: a start-element, end-element or character-data event reaches its
\* handler exactly when every conditional frame open at that moment is
\* enabled: an ifdef N frame iff N is defined, an ifndef N frame iff it is not.
FrameEnabled(f) == IF f.target = "ifdef" THEN f.name \in defs ELSE f.name \notin defs

C1_GatedByAllFrames ==
  last.kind \in {"start", "end", "cdata"} =>
    (last.delivered <=> \A i \in DOMAIN frames : FrameEnabled(frames[i]))

\* an event suppressed inside an enabled frame nested in a disabled one
C1_Witness ==
  /\ last.kind = "start"
  /\ ~last.delivered
  /\ Len(frames) = 2
  /\ ~FrameEnabled(frames[1])
  /\ FrameEnabled(frames[2])

\* C2: an endif that closes its frame at an element depth other than the
\* depth at which the frame was opened fails with 'badly formed ifdef',
\* for enabled and disabled frames alike.
C2_DepthMismatchFails ==
  (last.kind = "endif" /\ status # "IndexError" /\ last.depth0 # Len(open)) =>
    status = "badly formed ifdef"

(***************************************************************************)
(* SpecOptions: documents of commands, optgroups, options and optgroup     *)
(* references.                                                             *)
(***************************************************************************)
NextOptions ==
  \/ StartElement("b", [none |-> Absent])
  \/ StartElement("command", [names |-> <<<<"a">>>>])
  \/ \E n \in OgNames : StartElement("optgroup", [name |-> n])
  \/ \E at \in [short : ShortNames, long : LongNames, arg : {Absent}, accumulate : {<<>>}] : StartElement("option", at)
  \/ \E n \in OgNames : StartElement("optgroup-reference", [name |-> n])
  \/ EndElement
  \/ EndDocument

SpecOptions ==
  ReaderInit(MaxOptionEvents, 0) /\ [][NextOptions]_vars

\* every command the reader holds: those of the list and the open one
AllCommands == Range(commands) \cup Range(current["command"])

\* the options a command reaches: <<k, i>> is option i of its k-th optgroup
OptionAt(c, pos) == optgroups[c.optgroups[pos[1]]].options[pos[2]]

OptionPositions(c) ==
  UNION {{<<k, i>> : i \in DOMAIN optgroups[c.optgroups[k]].options} :
           k \in DOMAIN c.optgroups}

SameKey(o1, o2) ==
  \/ o1.long = o2.long
  \/ o1.symbol = o2.symbol
  \/ (o1.short # Absent /\ o1.short = o2.short)

\* C3: while the ingest has not failed, no two options reachable from one
\* command, in one optgroup or in two attached optgroups, share a long name,
\* a short name or a symbol.
C3_OptionKeysDistinct ==
  status \in {"parsing", "accepted"} =>
    \A c \in AllCommands : \A p1, p2 \in OptionPositions(c) :
      p1 # p2 => ~SameKey(OptionAt(c, p1), OptionAt(c, p2))

\* an accepted command with two attached optgroups that hold an option each
C3_Witness ==
  /\ status = "accepted"
  /\ \E c \in Range(commands) :
       /\ Len(c.optgroups) = 2
       /\ Len(optgroups[c.optgroups[1]].options) = 1
       /\ Len(optgroups[c.optgroups[2]].options) = 1

(***************************************************************************)
(* SpecArguments: one command and its arguments, with conditional          *)
(* instructions.                                                           *)
(***************************************************************************)
NextArguments ==
  \/ StartElement("command", [names |-> <<<<"a">>>>])
  \/ \E at \in [name : ArgNames, optional : BoolAttrs, repeat : BoolAttrs] :
       StartElement("argument", at)
  \/ EndElement
  \/ \E target \in {"ifdef", "ifndef"} : \E name \in Macros : IfdefInstruction(target, name)
  \/ EndifInstruction
  \/ EndDocument

SpecArguments ==
  ReaderInit(MaxArgumentEvents, MaxArgumentFrames) /\ [][NextArguments]_vars

\* C4: while the ingest has not failed, in every command's argument list no
\* argument follows a repeat argument and no mandatory argument follows an
\* optional one, at any distance.
C4_ArgumentOrder ==
  status \in {"parsing", "accepted"} =>
    \A c \in AllCommands : \A i, j \in DOMAIN c.arguments :
      i < j => /\ ~c.arguments[i].repeat
               /\ c.arguments[i].optional => c.arguments[j].optional

\* an accepted command: mandatory, optional, optional repeat
C4_Witness ==
  /\ status = "accepted"
  /\ \E c \in Range(commands) :
       /\ Len(c.arguments) = 3
       /\ ~c.arguments[1].optional
       /\ c.arguments[2].optional
       /\ c.arguments[3].repeat

(***************************************************************************)
(* SpecContext: documents that nest the five entity elements freely.       *)
(***************************************************************************)
NextContext ==
  \/ StartElement("b", [none |-> Absent])
  \/ StartElement("command", [names |-> <<<<"a">>>>])
  \/ StartElement("optgroup", [name |-> <<"g">>])
  \/ StartElement("option", [short |-> Absent, long |-> <<"l">>, arg |-> Absent,
                             accumulate |-> <<>>])
  \/ StartElement("argument", [name |-> <<"p">>, optional |-> "no", repeat |-> "no"])
  \/ StartElement("optgroup-reference", [name |-> <<"g">>])
  \/ EndElement
  \/ EndDocument

SpecContext ==
  ReaderInit(MaxContextEvents, 0) /\ [][NextContext]_vars

\* the entity elements that are open, outermost first
EntityPath == SelectSeq(open, LAMBDA t : t \in EntityTags)

LegalParent(path, i) ==
  CASE path[i] = "command" -> i = 1
    [] path[i] = "optgroup" -> i = 1 \/ (i = 2 /\ path[1] = "command")
    [] path[i] = "option" -> i >= 2 /\ path[i - 1] = "optgroup"
    [] OTHER -> i = 2 /\ path[1] = "command"

\* C5: while the ingest has not failed, every open entity element stands
\* in a legal parent: command at top level, optgroup at top level or directly
\* in a command, option directly in an optgroup, argument and
\* optgroup-reference directly in a command.
C5_LegalParents ==
  status \in {"parsing", "accepted"} =>
    \A i \in DOMAIN EntityPath : LegalParent(EntityPath, i)

(***************************************************************************)
(* SpecNames: documents of commands with one or two names each.            *)
(***************************************************************************)
NextNames ==
  \/ StartElement("b", [none |-> Absent])
  \/ \E ns \in NamesAttrs : StartElement("command", [names |-> ns])
  \/ EndElement
  \/ EndDocument

SpecNames ==
  ReaderInit(MaxNameEvents, 0) /\ [][NextNames]_vars

\* Command.dispatch_function().name
dispatch_name(c) == Append(c.symbol, "_dispatch")

\* op_c: the entries written between "autocmds[] = {" and "};"
RECURSIVE Autocmds(_)
Autocmds(cmds) ==
  IF cmds = <<>> THEN <<[name |-> <<>>, main |-> <<>>]>>
  ELSE [i \in DOMAIN allnames(cmds[1]) |->
          [name |-> allnames(cmds[1])[i], main |-> dispatch_name(cmds[1])]]
       \o Autocmds(Tail(cmds))

\* C6: the registry of an accepted file holds exactly one entry for each
\* name of each command, pointing to that command's dispatcher, and ends
\* with one zero sentinel.
C6_RegistryOneEntryPerName ==
  status = "accepted" =>
    LET reg == Autocmds(commands)
    IN /\ Last(reg) = [name |-> <<>>, main |-> <<>>]
       /\ \A c \in Range(commands) : \A n \in Range(allnames(c)) :
            Cardinality({i \in DOMAIN reg :
                           reg[i] = [name |-> n, main |-> dispatch_name(c)]}) = 1

(***************************************************************************)
(* The code that implementation mode generates for one command, read as    *)
(* the C program it is.  An argv word is [k, n]: k is "short" for -c,      *)
(* "long" for --name, "dd" for --, "val" for any other word.  A field of   *)
(* the info struct holds a sequence of words: <<>> is 0 or NULL, <<One>>   *)
(* a set flag bit, <<w>> a pointer to the word w, and a longer sequence a  *)
(* strlist.                                                                *)
(***************************************************************************)
Tok(k, n) == [k |-> k, n |-> n]

One == Tok("one", <<>>)

\* the truth value Python gives an attribute: None and "" are false
Truthy(x) == x # Absent /\ x # ""

\* emit_parse_args_cmd_function: long_opts[], without the {0} that ends it;
\* val is Absent for 0
LongTable(it) ==
  [i \in DOMAIN it |->
     [name |-> it[i].opt.long,
      has_arg |-> it[i].opt.arg # Absent,
      val |-> it[i].opt.short]]

\* emit_parse_args_cmd_function: short_opts[] after "+:", one [c, arg] per character
ShortSpec(it) ==
  LET withShort == SelectSeq(it, LAMBDA e : e.opt.short # Absent)
  IN [i \in DOMAIN withShort |->
        [c |-> withShort[i].opt.short, arg |-> withShort[i].opt.arg # Absent]]

\* the first place of a sequence that satisfies Test, 0 when there is none
FirstIndex(q, Test(_)) ==
  IF \E i \in DOMAIN q : Test(q[i])
  THEN CHOOSE i \in DOMAIN q : Test(q[i]) /\ \A j \in 1..(i - 1) : ~Test(q[j])
  ELSE 0

\* the case labels of switch (c): the options that have a short name
ShortCase(it, c) == FirstIndex(it, LAMBDA e : e.opt.short = c)

\* case labels that count the options without a short name only
LongCase_counting_long_only(it, idx) ==
  LET longOnly == {i \in DOMAIN it : it[i].opt.short = Absent}
      At(i) == Cardinality({j \in longOnly : j < i}) = idx
  IN IF \E i \in longOnly : At(i) THEN CHOOSE i \in longOnly : At(i) ELSE 0

\* the case labels of switch (long_idx): enumerate() over the options, the
\* ones with a short name skipped; idx counts from 0
LongCase(it, idx) ==
  IF idx + 1 \in DOMAIN it /\ it[idx + 1].opt.short = Absent THEN idx + 1 ELSE 0

\* accumulate_option(&slot, name, optarg): the option is appended to the list
accumulate_option(list, long, optarg) == list \o <<Tok("long", long)>> \o optarg

\* emit_record_option: the statement a case runs
record_option(info, e, optarg) ==
  IF e.opt.accumulate # <<>>
  THEN [info EXCEPT !.opts[e.og][e.opt.accumulate[1]] =
          accumulate_option(@, e.opt.long, IF e.opt.arg = Absent THEN <<>> ELSE optarg)]
  ELSE IF e.opt.arg = Absent
  THEN [info EXCEPT !.opts[e.og][e.opt.symbol] = <<One>>]
  ELSE [info EXCEPT !.opts[e.og][e.opt.symbol] = optarg]

\* the body of switch (c) for a value getopt_long returned
Dispatch(info, it, val, long_idx, optarg) ==
  LET j == IF val # Absent THEN ShortCase(it, val) ELSE LongCase(it, long_idx)
  IN IF j = 0 THEN info ELSE record_option(info, it[j], optarg)

\* the while (1) loop around getopt_long with "+:": [err, info, optind]
RECURSIVE GetoptLoop(_, _, _, _)
GetoptLoop(it, argv, i, info) ==
  IF i > Len(argv) THEN [err |-> "", info |-> info, optind |-> i]
  ELSE IF argv[i].k = "dd" THEN [err |-> "", info |-> info, optind |-> i + 1]
  ELSE IF argv[i].k = "short"
  THEN LET j == FirstIndex(ShortSpec(it), LAMBDA x : <<x.c>> = argv[i].n)
       IN IF j = 0 THEN [err |-> "invalid option", info |-> info, optind |-> i]
          ELSE IF ~ShortSpec(it)[j].arg
          THEN GetoptLoop(it, argv, i + 1,
                          Dispatch(info, it, ShortSpec(it)[j].c, -1, <<>>))
          ELSE IF i + 1 > Len(argv)
          THEN [err |-> "missing argument", info |-> info, optind |-> i]
          ELSE GetoptLoop(it, argv, i + 2,
                          Dispatch(info, it, ShortSpec(it)[j].c, -1, <<argv[i + 1]>>))
  ELSE IF argv[i].k = "long"
  THEN LET j == FirstIndex(LongTable(it), LAMBDA x : x.name = argv[i].n)
       IN IF j = 0 THEN [err |-> "invalid option", info |-> info, optind |-> i]
          ELSE IF ~LongTable(it)[j].has_arg
          THEN GetoptLoop(it, argv, i + 1,
                          Dispatch(info, it, LongTable(it)[j].val, j - 1, <<>>))
          ELSE IF i + 1 > Len(argv)
          THEN [err |-> "missing argument", info |-> info, optind |-> i]
          ELSE GetoptLoop(it, argv, i + 2,
                          Dispatch(info, it, LongTable(it)[j].val, j - 1, <<argv[i + 1]>>))
  ELSE [err |-> "", info |-> info, optind |-> i]

\* the capture with "too many arguments" tested whether or not an argument repeats
RECURSIVE Capture_ignoring_repeat(_, _, _, _)
Capture_ignoring_repeat(arguments, k, tail, captured) ==
  IF k > Len(arguments)
  THEN IF tail # <<>>
       THEN [err |-> "too many arguments", args |-> captured]
       ELSE [err |-> "", args |-> captured]
  ELSE LET a == arguments[k]
       IN IF ~a.optional /\ tail = <<>>
          THEN [err |-> "argument not present", args |-> captured]
          ELSE IF a.optional /\ ~a.repeat /\ tail = <<>>
          THEN Capture_ignoring_repeat(arguments, k + 1, tail, captured)
          ELSE IF a.repeat
          THEN Capture_ignoring_repeat(arguments, k + 1, tail,
                                       [captured EXCEPT ![a.symbol] = tail])
          ELSE Capture_ignoring_repeat(arguments, k + 1, Tail(tail),
                                       [captured EXCEPT ![a.symbol] = <<Head(tail)>>])

\* the positional capture that follows argv += optind: [err, args]
RECURSIVE Capture(_, _, _, _)
Capture(arguments, k, tail, captured) ==
  IF k > Len(arguments)
  THEN IF (\A i \in DOMAIN arguments : ~arguments[i].repeat) /\ tail # <<>>
       THEN [err |-> "too many arguments", args |-> captured]
       ELSE [err |-> "", args |-> captured]
  ELSE LET a == arguments[k]
       IN IF ~a.optional /\ tail = <<>>
          THEN [err |-> "argument not present", args |-> captured]
          ELSE IF a.optional /\ ~a.repeat /\ tail = <<>>
          THEN Capture(arguments, k + 1, tail, captured)
          ELSE IF a.repeat
          THEN Capture(arguments, k + 1, tail, [captured EXCEPT ![a.symbol] = tail])
          ELSE Capture(arguments, k + 1, Tail(tail),
                       [captured EXCEPT ![a.symbol] = <<Head(tail)>>])

\* the fields of struct <og>_opts (op_h): accumulators and option symbols
OgFields(og) ==
  og.accumulations
    \cup {og.options[i].symbol : i \in {j \in DOMAIN og.options :
                                           og.options[j].accumulate = <<>>}}

\* memset(&info, 0, sizeof(info)) in the dispatcher
ZeroInfo(cmd, store) ==
  [opts |-> [g \in {store[cmd.optgroups[k]].symbol : k \in DOMAIN cmd.optgroups} |->
               LET og == CHOOSE x \in Range(store) : x.symbol = g
               IN [f \in OgFields(og) |-> <<>>]],
   args |-> [a \in {cmd.arguments[k].symbol : k \in DOMAIN cmd.arguments} |-> <<>>]]

\* parse_args_cmd_<symbol>(ret, argc, argv): [err, info]
parse_args(cmd, store, argv) ==
  LET r == GetoptLoop(iter_options(cmd, store), argv, 1, ZeroInfo(cmd, store))
  IN IF r.err # "" THEN [err |-> r.err, info |-> r.info]
     ELSE LET c == Capture(cmd.arguments, 1,
                           SubSeq(argv, r.optind, Len(argv)), r.info.args)
          IN [err |-> c.err, info |-> [r.info EXCEPT !.args = c.args]]

\* sorted(): identifiers in the order of their characters' code points
CodePoint(c) ==
  CASE c = "-" -> 45 [] c = "_" -> 95 [] c = "a" -> 97 [] c = "b" -> 98
    [] c = "g" -> 103 [] c = "h" -> 104 [] c = "l" -> 108 [] c = "m" -> 109
    [] c = "p" -> 112 [] c = "q" -> 113

StrLess(x, y) ==
  \E i \in 1..(Len(y)) :
    /\ \A j \in 1..(i - 1) : j <= Len(x) /\ x[j] = y[j]
    /\ (i > Len(x) \/ (i <= Len(x) /\ CodePoint(x[i]) < CodePoint(y[i])))

Sorted(S) ==
  CHOOSE q \in [1..Cardinality(S) -> S] : \A i, j \in DOMAIN q : i < j => StrLess(q[i], q[j])

\* emit_emit_args_og_function: the words emit_args_<og>_opts appends to dest
RECURSIVE EmitAccumulations(_, _, _)
EmitAccumulations(accs, k, info_og) ==
  IF k > Len(accs) THEN <<>>
  ELSE info_og[accs[k]] \o EmitAccumulations(accs, k + 1, info_og)

RECURSIVE EmitOptions(_, _, _)
EmitOptions(options, k, info_og) ==
  IF k > Len(options) THEN <<>>
  ELSE LET o == options[k]
       IN (IF o.accumulate # <<>> THEN <<>>
           ELSE IF info_og[o.symbol] = <<>> THEN <<>>
           ELSE <<IF o.short # Absent THEN Tok("short", <<o.short>>)
                  ELSE Tok("long", o.long)>>
                \o (IF Truthy(o.arg) THEN info_og[o.symbol] ELSE <<>>))
          \o EmitOptions(options, k + 1, info_og)

emit_args_og(og, info_og) ==
  EmitAccumulations(Sorted(og.accumulations), 1, info_og)
    \o EmitOptions(og.options, 1, info_og)

\* emit_make_args_cmd_function: the strlist make_args_cmd_<name>(which, info) returns
RECURSIVE MakeOptgroups(_, _, _, _, _)
MakeOptgroups(cmd, store, k, which, info) ==
  IF k > Len(cmd.optgroups) THEN <<>>
  ELSE LET og == store[cmd.optgroups[k]]
           flag == IF og.forward THEN "CMD_ARG_FORWARDED" ELSE "CMD_ARG_NON_FORWARDED"
       IN (IF flag \in which THEN emit_args_og(og, info.opts[og.symbol]) ELSE <<>>)
          \o MakeOptgroups(cmd, store, k + 1, which, info)

RECURSIVE MakeArguments(_, _, _)
MakeArguments(arguments, k, info) ==
  IF k > Len(arguments) THEN <<>>
  ELSE info.args[arguments[k].symbol] \o MakeArguments(arguments, k + 1, info)

make_args(cmd, store, which, info) ==
  MakeOptgroups(cmd, store, 1, which, info)
    \o (IF "CMD_ARG_FORWARDED" \in which
        THEN <<Tok("dd", <<>>)>> \o MakeArguments(cmd.arguments, 1, info)
        ELSE <<>>)

(***************************************************************************)
(* SpecArgs: the generated parser and re-serializer of one command, run on *)
(* an argv: parse, make_args under FORWARDED|NON_FORWARDED, parse again.   *)
(***************************************************************************)
RtOptions ==
  {Option(sh, lo, ar, ac) : sh \in {Absent, "x"}, lo \in {<<"l">>, <<"m">>},
                            ar \in {Absent, "", "A"}, ac \in {<<>>, <<<<"q">>>>}}

RtArguments == {<<>>, <<Argument(<<"p">>, "yes", "yes")>>}

RtWords ==
  {Tok("short", <<"x">>), Tok("long", <<"l">>), Tok("long", <<"m">>),
   Tok("val", <<"v">>), Tok("dd", <<>>)}

SeqsUpTo(S, n) == UNION {[1..k -> S] : k \in 0..n}

\* the optgroup and the command as the ingest builds them
RECURSIVE AddOptions(_, _, _)
AddOptions(og, os, k) ==
  IF k > Len(os) THEN [og |-> og, err |-> ""]
  ELSE LET r == add_option(og, os[k])
       IN IF r.err # "" THEN r ELSE AddOptions(r.og, os, k + 1)

RECURSIVE AddArguments(_, _, _)
AddArguments(cmd, as, k) ==
  IF k > Len(as) THEN [cmd |-> cmd, err |-> ""]
  ELSE LET r == add_argument(cmd, as[k])
       IN IF r.err # "" THEN r ELSE AddArguments(r.cmd, as, k + 1)

\* the generator is not running
ReaderIdle ==
  /\ args = [op |-> "h", defs |-> {}]
  /\ pass = "done"
  /\ doc = <<>>
  /\ docPos = 0
  /\ pod = <<>>
  /\ manpod = <<>>
  /\ stdout = <<>>
  /\ defs = {}
  /\ ifdefs = <<>>
  /\ level = 0
  /\ current = NoScope
  /\ commands = <<>>
  /\ optgroups = <<>>
  /\ known_commands = {}
  /\ status = "accepted"
  /\ open = <<>>
  /\ rootDone = TRUE
  /\ frames = <<>>
  /\ last = [kind |-> "eof", delivered |-> FALSE, depth0 |-> 0]
  /\ evBudget = 0
  /\ frameBudget = 0

InitArgs ==
  /\ ReaderIdle
  /\ QuoteIdle
  /\ \E os \in SeqsUpTo(RtOptions, MaxRtOptions) \ {<<>>} : \E as \in RtArguments :
       LET g == AddOptions(OptGroup(<<"g">>, <<>>), os, 1)
           c == AddArguments(
                  add_optgroup(Command(<<"a">>, <<"a">>, <<>>), 1, <<g.og>>).cmd, as, 1)
       IN /\ g.err = ""
          /\ c.err = ""
          /\ rtStore = <<g.og>>
          /\ rtCmd = c.cmd
  /\ rtArgv \in SeqsUpTo(RtWords, MaxArgv)
  /\ rtPc = "start"
  /\ rtInfo = <<>>
  /\ rtOut = <<>>
  /\ rtInfo2 = <<>>

\* the dispatcher calls parse_args_cmd_<symbol>
RtParse ==
  /\ rtPc = "start"
  /\ LET r == parse_args(rtCmd, rtStore, rtArgv)
     IN /\ rtInfo' = r.info
        /\ rtPc' = IF r.err = "" THEN "parsed" ELSE "usage_error"
  /\ UNCHANGED <<rtStore, rtCmd, rtArgv, rtOut, rtInfo2>>
  /\ UNCHANGED <<readerVars, quoteVars, mainVars>>

\* make_args_cmd_<name>(CMD_ARG_FORWARDED | CMD_ARG_NON_FORWARDED, &info)
RtMakeArgs ==
  /\ rtPc = "parsed"
  /\ rtOut' = make_args(rtCmd, rtStore, {"CMD_ARG_FORWARDED", "CMD_ARG_NON_FORWARDED"},
                        rtInfo)
  /\ rtPc' = "emitted"
  /\ UNCHANGED <<rtStore, rtCmd, rtArgv, rtInfo, rtInfo2>>
  /\ UNCHANGED <<readerVars, quoteVars, mainVars>>

\* the emitted argv, behind an argv[0], is parsed by the same parser
RtReparse ==
  /\ rtPc = "emitted"
  /\ LET r == parse_args(rtCmd, rtStore, rtOut)
     IN /\ rtInfo2' = r.info
        /\ rtPc' = IF r.err = "" THEN "reparsed" ELSE "reparse_error"
  /\ UNCHANGED <<rtStore, rtCmd, rtArgv, rtInfo, rtOut>>
  /\ UNCHANGED <<readerVars, quoteVars, mainVars>>

NextArgs == RtParse \/ RtMakeArgs \/ RtReparse

SpecArgs == InitArgs /\ [][NextArgs]_vars

\* C7: the argv that make_args returns under FORWARDED|NON_FORWARDED for a
\* struct the parser filled parses again, to the same option struct.
C7_RoundTrip ==
  /\ rtPc # "reparse_error"
  /\ rtPc = "reparsed" => rtInfo2.opts = rtInfo.opts

(***************************************************************************)
(* CWriter's literals.  A character is its byte value.                     *)
(***************************************************************************)
Backslash == 92

DoubleQuote == 34

Digit0 == 48

\* "%03o" % n
Octal3(n) == <<Digit0 + ((n \div 64) % 8), Digit0 + ((n \div 8) % 8), Digit0 + (n % 8)>>

\* "%o" % n
OctalBare(n) ==
  IF n >= 64 THEN Octal3(n)
  ELSE IF n >= 8 THEN <<Digit0 + (n \div 8), Digit0 + (n % 8)>>
  ELSE <<Digit0 + n>>

\* char_literal writing the octal escape without padding
char_literal_unpadded(c, delim) ==
  IF c = delim \/ c = Backslash THEN <<Backslash, c>>
  ELSE IF c <= 31 \/ c = 127 THEN <<Backslash>> \o OctalBare(c)
  ELSE <<c>>

\* CWriter.char_literal
char_literal(c, delim) ==
  IF c = delim \/ c = Backslash THEN <<Backslash, c>>
  ELSE IF c <= 31 \/ c = 127 THEN <<Backslash>> \o Octal3(c)
  ELSE <<c>>

\* CWriter.quote_string
RECURSIVE QuoteParts(_)
QuoteParts(string) ==
  IF string = <<>> THEN <<>>
  ELSE char_literal(Head(string), DoubleQuote) \o QuoteParts(Tail(string))

quote_string(string) == <<DoubleQuote>> \o QuoteParts(string) \o <<DoubleQuote>>

(***************************************************************************)
(* What a C compiler reads in a string literal (C11 6.4.5, 6.4.4.4): an    *)
(* octal escape takes one to three octal digits, a simple escape one       *)
(* character; <<-1>> stands for a literal the compiler rejects.            *)
(***************************************************************************)
IsOctal(c) == c >= Digit0 /\ c <= Digit0 + 7

SimpleEscape(c) ==
  CASE c = 34 -> 34 [] c = 39 -> 39 [] c = 63 -> 63 [] c = 92 -> 92
    [] c = 97 -> 7 [] c = 98 -> 8 [] c = 102 -> 12 [] c = 110 -> 10
    [] c = 114 -> 13 [] c = 116 -> 9 [] c = 118 -> 11
    [] OTHER -> -1

RECURSIVE CBody(_, _)
CBody(lit, i) ==
  IF i > Len(lit) THEN <<-1>>
  ELSE IF lit[i] = DoubleQuote THEN (IF i = Len(lit) THEN <<>> ELSE <<-1>>)
  ELSE IF lit[i] # Backslash THEN <<lit[i]>> \o CBody(lit, i + 1)
  ELSE IF i + 1 > Len(lit) THEN <<-1>>
  ELSE IF IsOctal(lit[i + 1])
  THEN LET n == IF i + 3 <= Len(lit) /\ IsOctal(lit[i + 2]) /\ IsOctal(lit[i + 3]) THEN 3
                ELSE IF i + 2 <= Len(lit) /\ IsOctal(lit[i + 2]) THEN 2
                ELSE 1
           v == IF n = 3 THEN (lit[i + 1] - Digit0) * 64 + (lit[i + 2] - Digit0) * 8
                              + (lit[i + 3] - Digit0)
                ELSE IF n = 2 THEN (lit[i + 1] - Digit0) * 8 + (lit[i + 2] - Digit0)
                ELSE lit[i + 1] - Digit0
       IN <<v % 256>> \o CBody(lit, i + n + 1)
  ELSE <<SimpleEscape(lit[i + 1])>> \o CBody(lit, i + 2)

CDecode(lit) ==
  IF Len(lit) < 2 \/ lit[1] # DoubleQuote THEN <<-1>> ELSE CBody(lit, 2)

(***************************************************************************)
(* SpecQuote: a string is quoted and the literal is read back.             *)
(***************************************************************************)
\* control bytes, the two quotes, backslash, octal digits, 8, ?, letters, DEL, high bytes
QuoteBytes == {0, 1, 10, 31, 34, 39, 48, 49, 55, 56, 63, 65, 92, 110, 127, 128}

InitQuote ==
  /\ ReaderIdle
  /\ RtIdle
  /\ qS \in SeqsUpTo(QuoteBytes, MaxStrLen)
  /\ qLit = <<>>
  /\ qDec = <<>>
  /\ qPc = "start"

QuoteString ==
  /\ qPc = "start"
  /\ qLit' = quote_string(qS)
  /\ qPc' = "quoted"
  /\ UNCHANGED <<qS, qDec>>
  /\ UNCHANGED <<readerVars, rtVars, mainVars>>

CompileLiteral ==
  /\ qPc = "quoted"
  /\ qDec' = CDecode(qLit)
  /\ qPc' = "compiled"
  /\ UNCHANGED <<qS, qLit>>
  /\ UNCHANGED <<readerVars, rtVars, mainVars>>

NextQuote == QuoteString \/ CompileLiteral

SpecQuote == InitQuote /\ [][NextQuote]_vars

\* the width char_literal is to give a byte: 2 for backslash and the double
\* quote, 4 for 0x00..0x1F and 0x7F, 1 for every other byte
RECURSIVE EscapedWidth(_)
EscapedWidth(string) ==
  IF string = <<>> THEN 0
  ELSE (IF Head(string) \in {34, 92} THEN 2
        ELSE IF Head(string) \in 0..31 \cup {127} THEN 4
        ELSE 1) + EscapedWidth(Tail(string))

\* C8: the literal quote_string returns for S reads back as S, with
\* backslash and the double quote in the one-character backslash form,
\* 0x00..0x1F and 0x7F as three-digit octal escapes and every other byte as it is.
C8_QuoteRoundTrip ==
  /\ qPc \in {"quoted", "compiled"} => Len(qLit) = 2 + EscapedWidth(qS)
  /\ qPc = "compiled" => qDec = qS

\* a control byte followed by an octal digit, then a quote and a backslash
C8_Witness ==
  /\ qPc = "compiled"
  /\ \E i \in 1..(Len(qS) - 1) : qS[i] = 1 /\ qS[i + 1] = 49
  /\ 34 \in Range(qS)

(***************************************************************************)
(* main and the three operations.                                          *)
(***************************************************************************)
\* a PodGeneratingReader with definitions ds parses the source from its start
StartParse(ds) ==
  /\ defs' = ds
  /\ ifdefs' = <<>>
  /\ level' = 0
  /\ status' = "parsing"
  /\ open' = <<>>
  /\ rootDone' = FALSE
  /\ frames' = <<>>
  /\ last' = [kind |-> "none", delivered |-> FALSE, depth0 |-> 0]
  /\ docPos' = 1

\* op_h: the members of struct <og>_opts, in the order they are written
og_struct(og) ==
  LET accs == Sorted(og.accumulations)
      pointers == SelectSeq(og.options, LAMBDA o : o.arg # Absent /\ o.accumulate = <<>>)
      bits == SelectSeq(og.options, LAMBDA o : o.arg = Absent /\ o.accumulate = <<>>)
  IN [i \in DOMAIN accs |-> [type |-> "const struct strlist*", name |-> accs[i]]]
       \o [i \in DOMAIN pointers |-> [type |-> "const char*", name |-> pointers[i].symbol]]
       \o [i \in DOMAIN bits |-> [type |-> "unsigned : 1", name |-> bits[i].symbol]]

\* OptGroup.struct_name
struct_name(og) == og.name \o <<"_", "o", "p", "t", "s">>

\* Command.struct_name
command_struct_name(c) == <<"c", "m", "d", "_">> \o c.name \o <<"_", "i", "n", "f", "o">>

\* the characters of "cmd_<symbol>_info", the tag main_function and
\* make_args_function write into their signatures
symbol_info(c) == <<"c", "m", "d", "_">> \o c.symbol \o <<"_", "i", "n", "f", "o">>

\* Command.main_function: the name and the struct tag of the info parameter
main_function(c) ==
  [name |-> c.symbol \o <<"_", "m", "a", "i", "n">>, info |-> symbol_info(c)]

\* Command.make_args_function
make_args_function(c) ==
  [name |-> <<"m", "a", "k", "e", "_", "a", "r", "g", "s", "_", "c", "m", "d", "_">>
              \o c.name,
   info |-> symbol_info(c)]

\* Command.parse_args_function
parse_args_function(c) ==
  [name |-> <<"p", "a", "r", "s", "e", "_", "a", "r", "g", "s", "_", "c", "m", "d", "_">>
              \o c.symbol,
   info |-> command_struct_name(c)]

\* op_h: the fields of struct cmd_<name>_info, the attached optgroups and
\* then the arguments
cmd_struct(c) ==
  [j \in DOMAIN c.optgroups |->
     [type |-> <<"s", "t", "r", "u", "c", "t", " ">> \o struct_name(optgroups[c.optgroups[j]]),
      name |-> optgroups[c.optgroups[j]].symbol]]
    \o [j \in DOMAIN c.arguments |->
          [type |-> IF c.arguments[j].repeat
                    THEN <<"c", "o", "n", "s", "t", " ", "c", "h", "a", "r", "*", "*">>
                    ELSE <<"c", "o", "n", "s", "t", " ", "c", "h", "a", "r", "*">>,
           name |-> c.arguments[j].symbol]]

\* op_h: the records of the header, one for each optgroup and each command
op_h_output ==
  <<[k |-> "pragma once"]>>
    \o [i \in DOMAIN optgroups |->
          [k |-> "struct", name |-> struct_name(optgroups[i]),
           fields |-> og_struct(optgroups[i])]]
    \o [i \in DOMAIN commands |->
          [k |-> "struct", name |-> command_struct_name(commands[i]),
           fields |-> cmd_struct(commands[i]),
           prototypes |-> <<make_args_function(commands[i]),
                            main_function(commands[i])>>]]

\* main calling OPS["h"] whether or not r.parse has returned
op_h_unconditional ==
  /\ args.op = "h"
  /\ pass = "ingest"
  /\ pass' = "done"
  /\ stdout' = op_h_output
  /\ UNCHANGED <<readerVars, rtVars, quoteVars, args, doc, docPos, pod, manpod>>

\* main: OPS["h"](...)
op_h ==
  /\ args.op = "h"
  /\ pass = "ingest"
  /\ status = "accepted"
  /\ pass' = "done"
  /\ stdout' = op_h_output
  /\ UNCHANGED <<readerVars, rtVars, quoteVars, args, doc, docPos, pod, manpod>>

\* main: OPS["c"](...); op_c up to pod.parse(commands_file)
op_c ==
  /\ args.op = "c"
  /\ pass = "ingest"
  /\ status = "accepted"
  /\ pass' = "pod"
  /\ pod' = PodGeneratingReader(TRUE)
  /\ StartParse(args.defs \cup {"DOC"})
  /\ UNCHANGED <<current, commands, optgroups, known_commands, evBudget, frameBudget,
                 rtVars, quoteVars, args, doc, manpod, stdout>>

\* op_c from pod.parse to manpod.parse(commands_file)
op_c_manpod ==
  /\ args.op = "c"
  /\ pass = "pod"
  /\ status = "accepted"
  /\ pass' = "manpod"
  /\ manpod' = PodGeneratingReader(FALSE)
  /\ StartParse(args.defs \cup {"DOC"})
  /\ UNCHANGED <<current, commands, optgroups, known_commands, evBudget, frameBudget,
                 rtVars, quoteVars, args, doc, pod, stdout>>

\* pod.section_contents.get(pod.section_title_for_command(command)): <<>> is None
pod_documentation(cmd) ==
  IF section_title_for_command(cmd) \in DOMAIN pod.section_contents
  THEN pod.section_contents[section_title_for_command(cmd)]
  ELSE <<>>

\* op_c: the definitions emit_emit_args_og_function writes, one for each
\* optgroup of the store; OptGroup.emit_args_function names them
op_c_emit_args ==
  [i \in DOMAIN optgroups |->
     [k |-> "function",
      name |-> <<"e", "m", "i", "t", "_", "a", "r", "g", "s", "_">> \o struct_name(optgroups[i])]]

\* op_c: what it writes once both walkers have parsed; pod2text is not run here
op_c_output ==
  <<[k |-> "full_usage", pod2text |-> manpod.bw_output]>>
    \o op_c_emit_args
    \o [i \in DOMAIN commands |->
          [k |-> "command", symbol |-> commands[i].symbol,
           has_doc |-> pod_documentation(commands[i]) # <<>>,
           pod2text |-> IF pod_documentation(commands[i]) # <<>>
                        THEN Lit.ENCODING \o Lit.PARAGRAPH_END \o pod_documentation(commands[i])[1]
                        ELSE <<>>]]
    \o <<[k |-> "autocmds", entries |-> Autocmds(commands)]>>

\* op_c from manpod.parse to its return
op_c_write ==
  /\ args.op = "c"
  /\ pass = "manpod"
  /\ status = "accepted"
  /\ pass' = "done"
  /\ stdout' = op_c_output
  /\ UNCHANGED <<readerVars, rtVars, quoteVars, args, doc, docPos, pod, manpod>>

\* main: OPS["pod"](...); op_pod up to r.parse(commands_file)
op_pod ==
  /\ args.op = "pod"
  /\ pass = "ingest"
  /\ status = "accepted"
  /\ pass' = "pod"
  /\ pod' = PodGeneratingReader(FALSE)
  /\ stdout' = PodGeneratingReader(FALSE).bw_output
  /\ StartParse(args.defs)
  /\ UNCHANGED <<current, commands, optgroups, known_commands, evBudget, frameBudget,
                 rtVars, quoteVars, args, doc, manpod>>

(***************************************************************************)
(* SpecDoc: implementation mode over documents of a usage element,         *)
(* sections, commands and shared optgroups.                                *)
(***************************************************************************)
NextDoc ==
  \/ StartElement("usage", [program |-> <<"p">>, summary |-> <<"s">>])
  \/ StartElement("section", [name |-> <<"S">>])
  \/ \E n \in {<<"a">>, <<"b">>} : StartElement("command", [names |-> <<n>>])
  \/ StartElement("optgroup", [name |-> <<"g">>])
  \/ StartElement("optgroup", [name |-> <<"h">>, human |-> <<"H">>])
  \/ EndElement
  \/ EndDocument
  \/ op_c
  \/ op_c_manpod
  \/ op_c_write

SpecDoc ==
  MainInit({"c"}, Macros, MaxDocEvents, 0) /\ [][NextDoc]_vars

\* the full-optgroups pass of op_c has parsed the whole source
FullPassComplete ==
  /\ args.op = "c"
  /\ \/ pass = "pod" /\ status = "accepted"
     \/ pass \in {"manpod", "done"}

\* C9: after a complete full-optgroups pass the section-contents map has an
\* entry '<name> command' for every command of the file and an entry
\* '<HUMAN or NAME> OPTIONS' for every shared optgroup of the file.
C9_SectionForEveryElement ==
  FullPassComplete =>
    /\ \A i \in DOMAIN commands :
         section_title_for_command(commands[i]) \in DOMAIN pod.section_contents
    /\ \A i \in DOMAIN optgroups :
         ~optgroups[i].private =>
           section_title_for_optgroup(optgroups[i]) \in DOMAIN pod.section_contents

(***************************************************************************)
(* SpecMain: every operation, over documents with conditional sections.    *)
(***************************************************************************)
MainMacros == {"X", "DOC"}

NextMain ==
  \/ StartElement("usage", [program |-> <<"p">>, summary |-> <<"s">>])
  \/ StartElement("section", [name |-> <<"S">>])
  \/ StartElement("command", [names |-> <<<<"a">>>>])
  \/ EndElement
  \/ \E target \in {"ifdef", "ifndef"} : \E name \in MainMacros :
       IfdefInstruction(target, name)
  \/ EndifInstruction
  \/ EndDocument
  \/ op_h
  \/ op_c
  \/ op_c_manpod
  \/ op_c_write
  \/ op_pod

SpecMain ==
  MainInit({"h", "c", "pod"}, MainMacros, MaxMainEvents, MaxMainFrames) /\ [][NextMain]_vars

\* C10: the ingest pass gates conditionals with the definitions of the
\* command line, every documentation pass (both walkers of mode c, the walker
\* of mode pod) with these definitions and DOC.
C10_DocPassesDefineDOC ==
  /\ pass = "ingest" => defs = args.defs
  /\ pass \in {"pod", "manpod"} => defs = args.defs \cup {"DOC"}

\* C11: in every output mode nothing is written to the output stream, and no
\* operation is started, before the ingest pass has ended without an error:
\* a run whose ingest fails writes nothing at all.
C11_NoOutputBeforeIngest ==
  [][(pass = "ingest" /\ (stdout' # stdout \/ pass' # "ingest")) => status = "accepted"]_vars

\* an ingest that has failed, with nothing written
C11_Witness ==
  /\ pass = "ingest"
  /\ status \notin {"parsing", "accepted"}
  /\ commands # <<>>
  /\ stdout = <<>>

(***************************************************************************)
(* The pairing of the conditional instructions, under Spec.                *)
(***************************************************************************)
\* C12: a parse that ends without an error has paired every ifdef and ifndef
\* with an endif: the stack of conditional frames is empty when it ends.
C12_FramesPairedAtEnd ==
  status = "accepted" => ifdefs = <<>>

\* the parser has just read an endif instruction
EndifStep ==
  /\ last'.kind = "endif"
  /\ evBudget' # evBudget \/ docPos' # docPos

\* C13: an endif that arrives while no conditional frame is open makes the
\* parse fail, and no event is handled once a parse has failed.
C13_UnmatchedEndifFails ==
  [][/\ (ifdefs = <<>> /\ EndifStep) => status' \notin {"parsing", "accepted"}
     /\ status \in {"parsing", "accepted"}]_vars

\* the parse has failed at an endif that had no frame to close, after a
\* frame was opened and closed
C13_Witness ==
  /\ last.kind = "endif"
  /\ ifdefs = <<>>
  /\ frameBudget < MaxFrames
  /\ status \notin {"parsing", "accepted", "badly formed ifdef"}

(***************************************************************************)
(* The names of the commands, under SpecNames.                             *)
(***************************************************************************)
\* the names and the symbol of a command
NameSet(c) == Range(allnames(c)) \cup {c.symbol}

\* the commands the reader holds, the open one last
CommandsHeld == commands \o current["command"]

\* a command element with these names has a name or a symbol of a command held
Clashes(ns) ==
  \E i \in DOMAIN CommandsHeld :
    (Range(ns) \cup {ReplaceDash(ns[1])}) \cap NameSet(CommandsHeld[i]) # {}

\* C14: no name and no symbol of a command equals a name or the symbol of
\* another command; a command element at top level whose names or symbol
\* would break this fails with 'duplicate command names' and adds no command.
C14_CommandNamesUnique ==
  /\ [](\A i, j \in DOMAIN CommandsHeld :
          i # j => NameSet(CommandsHeld[i]) \cap NameSet(CommandsHeld[j]) = {})
  /\ [][\A ns \in NamesAttrs :
          (StartElement("command", [names |-> ns]) /\ Keys(current) = {} /\ Clashes(ns))
            => /\ status' = "duplicate command names"
               /\ commands' = commands
               /\ current' = current]_vars

\* a command is rejected after a command with two names was added
C14_Witness ==
  /\ status = "duplicate command names"
  /\ Len(commands) = 2
  /\ commands[1].altnames # <<>>

(***************************************************************************)
(* The depth counter of UsageFileReader, under Spec.                       *)
(***************************************************************************)
\* C15: the depth counter equals the nesting depth of the source at every
\* moment of a parse, inside disabled conditional frames too: a suppressed
\* start-element raises it by one and a suppressed end-element lowers it.
C15_LevelIsDepth ==
  status \in {"parsing", "accepted"} => level = Len(open)

(***************************************************************************)
(* The emitters' view of one option, under SpecArgs.                       *)
(***************************************************************************)
\* emit_args_<og>_opts appends the stored value behind the flag of option o
AppendsValue(o) ==
  Len(EmitOptions(<<o>>, 1, [f \in {o.symbol} |-> <<Tok("val", <<"v">>)>>])) = 2

\* the header declares the slot of option o of og as a pointer to a string
PointerField(og, o) ==
  \E i \in DOMAIN og_struct(og) :
    og_struct(og)[i] = [type |-> "const char*", name |-> o.symbol]

\* long_opts[] marks option o required_argument
RequiredArgument(og, o) == LongTable(<<[og |-> og.symbol, opt |-> o]>>)[1].has_arg

\* C16: for every option that does not accumulate, the re-serializer appends
\* the stored value behind the flag exactly when the header declares the slot
\* a pointer to a string and the parser table marks the option
\* required_argument, which is exactly when the option has an arg attribute.
C16_EmittersAgreeOnArg ==
  \A k \in DOMAIN rtStore : \A i \in DOMAIN rtStore[k].options :
    LET o == rtStore[k].options[i]
    IN o.accumulate = <<>> =>
         /\ AppendsValue(o) = PointerField(rtStore[k], o)
         /\ PointerField(rtStore[k], o) = RequiredArgument(rtStore[k], o)
         /\ RequiredArgument(rtStore[k], o) = (o.arg # Absent)

(***************************************************************************)
(* SpecRef: implementation mode over documents of a usage element that     *)
(* holds a shared optgroup, a command, references and text.                *)
(***************************************************************************)
NextRef ==
  \/ (open = <<>> /\ StartElement("usage", [program |-> <<"p">>, summary |-> <<"s">>]))
  \/ StartElement("optgroup", [name |-> <<"g">>])
  \/ StartElement("command", [names |-> <<<<"a">>>>])
  \/ StartElement("optgroup-reference", [name |-> <<"g">>])
  \/ \E c \in {"x", "y"} : CharacterData(<<c>>)
  \/ EndElement
  \/ EndDocument
  \/ op_c
  \/ op_c_manpod
  \/ op_c_write

SpecRef ==
  MainInit({"c"}, {}, MaxRefEvents, 0) /\ [][NextRef]_vars

\* event n of the source is the start of an element `tag`
IsStart(n, tag) == doc[n].kind = "start" /\ doc[n].tag = tag

\* event n of the source is the text c
IsText(n, c) == doc[n].kind = "cdata" /\ doc[n].cdata = <<c>>

\* the element that starts at event s is open at event n
OpenAt(s, n) ==
  \A m \in s..n :
    Cardinality({x \in s..m : doc[x].kind = "start"})
      > Cardinality({x \in s..m : doc[x].kind = "end"})

\* everything a walker has written, to its stream or to the section buffer
Written(w) ==
  w.bw_output \o (IF w.bw_output_buffer # <<>> THEN w.bw_output_buffer[1] ELSE <<>>)

\* text holds part at position q
Occurs(part, text, q) ==
  /\ q + Len(part) - 1 <= Len(text)
  /\ SubSeq(text, q, q + Len(part) - 1) = part

\* the title of the section of optgroup g, the heading of command a
GSection == section_title_for_optgroup(OptGroup(<<"g">>, <<>>))

AHeading == Lit.HEAD1 \o upper(section_title_for_command(Command(<<"a">>, <<"a">>, <<>>)))

\* the section of optgroup g stands at position q, behind the heading of command a
InlinedAt(text, q) ==
  /\ GSection \in DOMAIN pod.section_contents
  /\ pod.section_contents[GSection] # <<>>
  /\ Occurs(pod.section_contents[GSection][1], text, q)
  /\ \E h \in 1..q : Occurs(AHeading, text, h)

\* C17: in the full-optgroups pass the section inlined for an
\* optgroup-reference stands, in the text written, behind the text of the
\* character data that precedes the reference inside the command and before
\* the text of the character data that follows it there.
C17_InlinedAtCurrentPosition ==
  (args.op = "c" /\ pass = "pod" /\ status = "accepted"
     /\ \A c \in {"x", "y"} : Cardinality({n \in DOMAIN doc : IsText(n, c)}) <= 1
     /\ Cardinality({n \in DOMAIN doc : IsStart(n, "optgroup-reference")}) = 1) =>
    \A s, j \in DOMAIN doc :
      (s < j /\ IsStart(s, "command") /\ IsStart(j, "optgroup-reference")) =>
        /\ \A i \in (s + 1)..(j - 1) :
             IsText(i, "x") =>
               \E p, q \in DOMAIN Written(pod) :
                 Written(pod)[p] = "x" /\ p < q /\ InlinedAt(Written(pod), q)
        /\ \A k \in (j + 1)..Len(doc) :
             (IsText(k, "y") /\ OpenAt(s, k)) =>
               \E q, r \in DOMAIN Written(pod) :
                 Written(pod)[r] = "y" /\ q < r /\ InlinedAt(Written(pod), q)

(***************************************************************************)
(* SpecShare: the ingest pass over documents of two commands that declare  *)
(* and reference optgroups.                                                *)
(***************************************************************************)
NextShare ==
  \/ StartElement("b", [none |-> Absent])
  \/ \E n \in {<<"a">>, <<"b">>} : StartElement("command", [names |-> <<n>>])
  \/ \E n \in OgNames : StartElement("optgroup", [name |-> n])
  \/ \E n \in OgNames : StartElement("optgroup-reference", [name |-> n])
  \/ EndElement
  \/ EndDocument

SpecShare ==
  ReaderInit(MaxShareEvents, 0) /\ [][NextShare]_vars

\* the commands of the list that optgroup k of the store is attached to
AttachedTo(k) == {c \in DOMAIN commands : k \in Range(commands[c].optgroups)}

\* C18: after an accepted ingest every private optgroup is attached to
\* exactly one command; only the optgroups declared at top level are attached
\* to several commands.
C18_PrivateNotShared ==
  status = "accepted" =>
    \A k \in DOMAIN optgroups : optgroups[k].private => Cardinality(AttachedTo(k)) = 1

\* the records of that kind and name in what an operation writes
Written_as(output, kind, name) ==
  {i \in DOMAIN output : output[i].k = kind /\ output[i].name = name}

\* C19: for an accepted file the implementation holds exactly one definition
\* of emit_args_<name>_opts, and the header exactly one record <name>_opts,
\* for each optgroup name: no two optgroups of the store have the same name.
C19_OneDefinitionPerOptgroup ==
  status = "accepted" =>
    \A g \in DOMAIN optgroups :
      /\ Cardinality(Written_as(op_c_emit_args, "function",
                                 <<"e", "m", "i", "t", "_", "a", "r", "g", "s", "_">>
                                   \o struct_name(optgroups[g]))) = 1
      /\ Cardinality(Written_as(Tail(op_h_output), "struct",
                                 struct_name(optgroups[g]))) = 1
      /\ \A h \in DOMAIN optgroups : g # h => optgroups[g].name # optgroups[h].name

(***************************************************************************)
(* SpecText: mode pod over documents of sections, inline markup, text and  *)
(* vspace elements.                                                        *)
(***************************************************************************)
NextText ==
  \/ StartElement("section", [name |-> <<"S">>])
  \/ StartElement("b", [none |-> Absent])
  \/ StartElement("vspace", [none |-> Absent])
  \/ CharacterData(<<"x">>)
  \/ EndElement
  \/ EndDocument
  \/ op_pod

SpecText ==
  MainInit({"pod"}, {}, MaxTextEvents, 0) /\ [][NextText]_vars

\* text ends with part
EndsWith(text, part) ==
  /\ Len(part) <= Len(text)
  /\ SubSeq(text, Len(text) - Len(part) + 1, Len(text)) = part

\* C20: when the walker has handled the start of a vspace element, the last
\* paragraph of what it has written is exactly Z<>, whether or not a
\* section buffer is active and whether or not a paragraph was pending.
C20_VspaceWritesParagraph ==
  (pass = "pod" /\ status = "parsing" /\ docPos > 1 /\ IsStart(docPos - 1, "vspace")) =>
    EndsWith(Written(pod), Lit.PARAGRAPH_END \o Lit.ZERO_WIDTH \o Lit.PARAGRAPH_END)

(***************************************************************************)
(* SpecPre: mode pod over documents of sections and pre blocks that hold   *)
(* text with a run of whitespace and text with a markup special.           *)
(***************************************************************************)
NextPre ==
  \/ StartElement("section", [name |-> <<"S">>])
  \/ StartElement("pre", [none |-> Absent])
  \/ CharacterData(<<"x", " ", " ", "y">>)
  \/ CharacterData(<<"<">>)
  \/ EndElement
  \/ EndDocument
  \/ op_pod

SpecPre ==
  MainInit({"pod"}, {}, MaxPreEvents, 0) /\ [][NextPre]_vars

\* event n of the source is character data inside a pre element
InPre(n) ==
  /\ doc[n].kind = "cdata"
  /\ \E s \in 1..(n - 1) : IsStart(s, "pre") /\ OpenAt(s, n)

\* C21: when the pod pass has read the whole source, the character data of
\* every text event inside a pre element stands in the text written as it is
\* in the source: its runs of whitespace are not collapsed and its special
\* characters are not escaped.
C21_PrePreservesText ==
  (pass = "pod" /\ status = "accepted") =>
    \A n \in DOMAIN doc :
      InPre(n) => \E q \in DOMAIN Written(pod) : Occurs(doc[n].cdata, Written(pod), q)

(***************************************************************************)
(* The option tables of the generated parser (SpecArgs).                   *)
(***************************************************************************)
\* the options of the command the code was generated for, in iteration order
RtIter == iter_options(rtCmd, rtStore)

\* the options as declared, group by group in the order of attachment
RECURSIVE Declared(_)
Declared(k) ==
  IF k > Len(rtCmd.optgroups) THEN <<>>
  ELSE rtStore[rtCmd.optgroups[k]].options \o Declared(k + 1)

\* argv is one long option that has no short name: its place in long_opts[], else 0
LongOnlyMatch ==
  IF rtArgv # <<>> /\ rtArgv[1].k = "long"
  THEN LET j == FirstIndex(LongTable(RtIter), LAMBDA x : x.name = rtArgv[1].n)
       IN IF j # 0 /\ RtIter[j].opt.short = Absent
             /\ Len(rtArgv) = (IF RtIter[j].opt.arg = Absent THEN 1 ELSE 2)
          THEN j ELSE 0
  ELSE 0

\* C22: long_opts[] has one entry per option in declaration order, with val
\* the short character or 0 (Absent); the case label of an option without a
\* short name is its place in the table; and a long-only match runs the
\* record action of the option that matched, and of no other.
C22_LongTableAndLabels ==
  /\ Len(LongTable(RtIter)) = Len(Declared(1))
  /\ \A i \in DOMAIN Declared(1) :
       /\ LongTable(RtIter)[i].name = Declared(1)[i].long
       /\ LongTable(RtIter)[i].val = Declared(1)[i].short
       /\ Declared(1)[i].short = Absent =>
            /\ LongCase(RtIter, i - 1) = i
            /\ \A idx \in 0..Len(RtIter) : LongCase(RtIter, idx) = i => idx = i - 1
  /\ (rtPc \in {"parsed", "usage_error"} /\ LongOnlyMatch # 0) =>
       rtInfo.opts = record_option(ZeroInfo(rtCmd, rtStore), RtIter[LongOnlyMatch],
                                   Tail(rtArgv)).opts

\* a long-only option declared behind an option with a short name has matched
C22_Witness ==
  /\ rtPc = "parsed"
  /\ LongOnlyMatch = 2
  /\ RtIter[1].opt.short # Absent
  /\ rtInfo.opts # ZeroInfo(rtCmd, rtStore).opts

(***************************************************************************)
(* SpecCapture: the generated parser of a command without options, for     *)
(* every argument list add_argument accepts, run on an argv of values.     *)
(***************************************************************************)
CaptureArguments ==
  {Argument(n, r, o) : n \in {<<"p">>, <<"q">>, <<"r">>},
                       r \in {"yes", "no"}, o \in {"yes", "no"}}

CaptureWords == {Tok("val", <<"v">>), Tok("val", <<"w">>)}

InitCapture ==
  /\ ReaderIdle
  /\ QuoteIdle
  /\ \E as \in SeqsUpTo(CaptureArguments, MaxCaptureArgs) :
       LET c == AddArguments(Command(<<"a">>, <<"a">>, <<>>), as, 1)
       IN /\ c.err = ""
          /\ rtCmd = c.cmd
  /\ rtStore = <<>>
  /\ rtArgv \in SeqsUpTo(CaptureWords, MaxTail)
  /\ rtPc = "start"
  /\ rtInfo = <<>>
  /\ rtOut = <<>>
  /\ rtInfo2 = <<>>

SpecCapture == InitCapture /\ [][NextArgs]_vars

\* the number of mandatory arguments of the command
Mandatory == Cardinality({i \in DOMAIN rtCmd.arguments : ~rtCmd.arguments[i].optional})

\* an argument of the command repeats
Repeats == \E i \in DOMAIN rtCmd.arguments : rtCmd.arguments[i].repeat

\* what the capture makes of the argv
Captured == Capture(rtCmd.arguments, 1, rtArgv, ZeroInfo(rtCmd, rtStore).args)

\* C23: the capture fails with "argument not present" iff the argv holds
\* fewer values than the command has mandatory arguments, and with "too many
\* arguments" iff no argument repeats and the argv holds more values than
\* the command has arguments; otherwise argument i holds value i (NULL when
\* there is none) and a repeat argument the rest of the argv from its place
\* on; the parser run ends in a usage error exactly when the capture fails.
C23_PositionalCapture ==
  /\ Captured.err = "argument not present" <=> Len(rtArgv) < Mandatory
  /\ Captured.err = "too many arguments"
       <=> (~Repeats /\ Len(rtArgv) > Len(rtCmd.arguments))
  /\ Captured.err \in {"", "argument not present", "too many arguments"}
  /\ Captured.err = "" =>
       \A i \in DOMAIN rtCmd.arguments :
         Captured.args[rtCmd.arguments[i].symbol] =
           IF rtCmd.arguments[i].repeat THEN SubSeq(rtArgv, i, Len(rtArgv))
           ELSE IF i <= Len(rtArgv) THEN <<rtArgv[i]>> ELSE <<>>
  /\ rtPc = "usage_error" => Captured.err # ""
  /\ rtPc \in {"parsed", "emitted", "reparsed", "reparse_error"} =>
       Captured.err = "" /\ rtInfo.args = Captured.args

\* mandatory, optional and repeat argument, parsed on an argv of four values
C23_Witness ==
  /\ rtPc = "parsed"
  /\ Len(rtCmd.arguments) = 3
  /\ ~rtCmd.arguments[1].optional
  /\ rtCmd.arguments[2].optional
  /\ rtCmd.arguments[3].repeat
  /\ Len(rtArgv) = 4
  /\ Len(rtInfo.args[rtCmd.arguments[3].symbol]) = 2

\* C24: when the ingest pass has completed on a source whose conditional
\* instructions are all closed, no entity is open in the scope map and every
\* command whose start event was delivered (its names are in known_commands)
\* is in the command list.
C24_NoCommandLeftOpen ==
  (status = "accepted" /\ ifdefs = <<>>) =>
    /\ Keys(current) = {}
    /\ known_commands = UNION {NameSet(commands[i]) : i \in DOMAIN commands}

(***************************************************************************)
(* SpecFields: header mode over documents of an optgroup, a command,       *)
(* options that accumulate or not, arguments and references.               *)
(***************************************************************************)
NextFields ==
  \/ StartElement("optgroup", [name |-> <<"g">>])
  \/ StartElement("command", [names |-> <<<<"a">>>>])
  \/ \E at \in {[short |-> Absent, long |-> <<"q">>, arg |-> Absent, accumulate |-> <<>>],
                 [short |-> Absent, long |-> <<"l">>, arg |-> Absent,
                  accumulate |-> <<<<"q">>>>]} :
       StartElement("option", at)
  \/ \E n \in {<<"g">>, <<"p", "-", "q">>, <<"p", "_", "q">>} :
       StartElement("argument", [name |-> n, optional |-> "no", repeat |-> "no"])
  \/ StartElement("optgroup-reference", [name |-> <<"g">>])
  \/ EndElement
  \/ EndDocument
  \/ op_h

SpecFields ==
  ReaderInit(MaxFieldEvents, 0) /\ [][NextFields]_vars

\* the fields of a record of the header have pairwise distinct names
DistinctFields(fields) ==
  \A i, j \in DOMAIN fields : i # j => fields[i].name # fields[j].name

\* the record of the header that defines the struct of optgroup og
OgRecord(og) == [k |-> "struct", name |-> struct_name(og), fields |-> og_struct(og)]

\* C25: in the header written for an accepted source, the fields of the
\* record of every optgroup have pairwise distinct names.
C25_OptgroupFieldsDistinct ==
  (pass = "done" /\ args.op = "h") =>
    \A g \in DOMAIN optgroups :
      /\ \E r \in DOMAIN stdout : stdout[r] = OgRecord(optgroups[g])
      /\ DistinctFields(og_struct(optgroups[g]))

\* the record of the header that defines the struct of command c
CmdRecord(c) ==
  [k |-> "struct", name |-> command_struct_name(c), fields |-> cmd_struct(c),
   prototypes |-> <<make_args_function(c), main_function(c)>>]

\* C26: in the header written for an accepted source, the fields of the
\* record cmd_<name>_info of every command have pairwise distinct names:
\* the symbols of its arguments and of its attached optgroups.
C26_CommandFieldsDistinct ==
  (pass = "done" /\ args.op = "h") =>
    \A c \in DOMAIN commands :
      /\ \E r \in DOMAIN stdout : stdout[r] = CmdRecord(commands[c])
      /\ DistinctFields(cmd_struct(commands[c]))

\* C27: for every command of an accepted source the struct tag of
\* Command.struct_name, which the struct definition, the dispatcher and the
\* signature of parse_args use, is the tag in the signatures of main and of
\* make_args.
C27_OneStructTag ==
  status = "accepted" =>
    \A i \in DOMAIN commands :
      /\ parse_args_function(commands[i]).info = command_struct_name(commands[i])
      /\ main_function(commands[i]).info = command_struct_name(commands[i])
      /\ make_args_function(commands[i]).info = command_struct_name(commands[i])

\* the walkers that have been made
Walkers == {w \in {pod, manpod} : w # <<>>}

\* C28: in every state of a documentation walker a section title is current
\* exactly when an output buffer is active, and neither the assertion of
\* start_section_buffer nor that of ob_start has failed.
C28_SectionIffBuffer ==
  /\ \A w \in Walkers :
       /\ w.current_section # <<>> <=> w.bw_output_buffer # <<>>
       /\ w.err # "AssertionError"
  /\ status # "AssertionError"

\* a walker that has closed the buffer of one section and opened the next
C28_Witness ==
  /\ pass \in {"pod", "manpod"}
  /\ status = "parsing"
  /\ Walker.current_section # <<>>
  /\ Walker.bw_output_buffer # <<>>
  /\ \E title \in DOMAIN Walker.section_contents :
       /\ title # Walker.current_section[1]
       /\ Walker.section_contents[title] # <<>>

====
